---- MODULE Spec2Model ----
(***************************************************************************)
(* A model of the task orchestration core of hedwig: the Security Gateway  *)
(* (tools/security.py), the tool-call step of the Agent Executor           *)
(* (agents/executor.py), the Dispatcher (agents/dispatcher.py) and the     *)
(* application's retry loop (app.py).                                      *)
(*                                                                         *)
(* Specifications:                                                         *)
(*   SpecRisk     assess_risk applied to every tool and argument mapping   *)
(*   SpecGateway  execute_tool / _execute_tool_call, step by step          *)
(*   SpecRoute    DispatcherAgent.route_task, register and unregister      *)
(*   SpecRetry    HedwigApp._execute_with_retry                            *)
(*   SpecExec     AgentExecutor.invoke: the reasoning loop of one call     *)
(*   SpecReuse    sequential invoke calls on one executor                  *)
(*   SpecAgent    BaseAgent.run and reject_task (agents/base.py)           *)
(*   SpecRegistry calls on one ToolRegistry (tools/registry.py)            *)
(*   SpecHistory  the bounded denial and routing histories                 *)
(*   SpecAutoOpen the two auto-open rules on one list of new artifacts     *)
(*   SpecExecLive, SpecRetryLive   SpecExec and SpecRetry with weak        *)
(*                fairness of the next step (the loops run synchronously)  *)
(*   SpecShared   two overlapping invoke calls on the one shared executor  *)
(*   SpecWorkers  worker threads recording denials on one gateway          *)
(*   SpecAllow    invoke with a list of specific tools                     *)
(*   SpecTask     one agent run and the processing of its result (app.py)  *)
(*   SpecArtifacts calls on one ArtifactRegistry (core/artifact_registry)  *)
(***************************************************************************)
EXTENDS Integers, Sequences, FiniteSets, TLC

VARIABLES
    hasCallback,        \* SecurityGateway.user_confirmation_callback is set
    cwdSystem,          \* the process's working directory lies under a system directory
    denied_operations,  \* SecurityGateway._denied_operations
    gw,                 \* the frame of the execute_tool call in progress
    ex,                 \* the frame of the executor's _execute_tool_call in progress
    calls,              \* tool calls started so far
    llm_callback,       \* DispatcherAgent.llm_callback is set
    specialist_agents,  \* DispatcherAgent.specialist_agents: the names, in insertion order
    routing_history,    \* DispatcherAgent.routing_history
    route,              \* the last route_task call: its inputs and how it ended
    routes,             \* route_task calls made so far
    rt,                 \* the frame of the _execute_with_retry call in progress
    thread,             \* HedwigApp.current_thread: its messages
    session_stats,      \* HedwigApp.session_stats
    attempts,           \* history: the attempts of the retry loop so far
    executor,           \* the AgentExecutor: its configuration and execution state
    heap,               \* the list objects the executor and its results refer to
    inv,                \* the frame of the invoke call in progress
    returned,           \* the results the invoke calls so far returned, in order
    produced,           \* history: the artifacts the tools produced during the call
    ag,                 \* the frame of the last BaseAgent.run or reject_task call
    _tools,             \* ToolRegistry._tools: the tool instance under each name
    rg,                 \* the last call on the tool registry, and the instances
                        \* that were registered (history)
    recorded,           \* history: every denial and every routing decision recorded
    auto,               \* one list of new artifacts and what each auto-open rule chose
    parked,             \* the invoke frame of the worker thread that is not running
    recording,          \* where each worker thread is in its _record_denial call
    tk,                 \* one task: the agent's _run around invoke, and the
                        \* application's processing of its result
    areg                \* an ArtifactRegistry: its three indexes and its last call

gwVars == <<hasCallback, cwdSystem, denied_operations, gw, ex, calls>>

dpVars == <<llm_callback, specialist_agents, routing_history, route, routes>>

rtVars == <<rt, thread, session_stats, attempts>>

xVars == <<executor, heap, inv, returned, produced>>

agVars == <<ag>>

regVars == <<_tools, rg>>

histVars == <<recorded>>

autoVars == <<auto>>

parkVars == <<parked>>

wkVars == <<recording>>

tkVars == <<tk>>

aregVars == <<areg>>

libVars == <<agVars, regVars, histVars, autoVars, parkVars, wkVars, tkVars, aregVars>>

vars == <<gwVars, dpVars, rtVars, xVars, libVars>>

\* what the actions of one component leave unchanged
notGw == <<dpVars, rtVars, xVars, libVars>>

notDp == <<gwVars, rtVars, xVars, libVars>>

notRt == <<gwVars, dpVars, xVars, libVars>>

notX == <<dpVars, rtVars, libVars>>

notLib == <<gwVars, dpVars, rtVars, xVars>>

notAg == <<regVars, histVars, autoVars, parkVars, wkVars, tkVars, aregVars, notLib>>

notReg == <<agVars, histVars, autoVars, parkVars, wkVars, tkVars, aregVars, notLib>>

notAuto == <<agVars, regVars, histVars, parkVars, wkVars, tkVars, aregVars, notLib>>

notTk == <<agVars, regVars, histVars, autoVars, parkVars, wkVars, aregVars, notLib>>

notAreg == <<agVars, regVars, histVars, autoVars, parkVars, wkVars, tkVars, notLib>>

(***************************************************************************)
(* Bounds of the model.                                                    *)
(***************************************************************************)
MaxCalls == 2

MaxRoutes == 1

MaxRetries == 3

MaxIterations == 3

MaxInvokes == 2

MaxRecords == 3

MaxArtifacts == 3

MaxYields == 2

MaxWorkers == 2

MaxArtifactIds == 2

(***************************************************************************)
(* Risk tiers (security.py:108) and their order.                           *)
(***************************************************************************)
RiskHierarchy == <<"read_only", "write", "execute", "destructive">>

RiskTiers == {RiskHierarchy[i] : i \in 1..Len(RiskHierarchy)}

\* risk_hierarchy.index(t), 0-based as in the source
HierarchyIndex(t) == (CHOOSE i \in 1..Len(RiskHierarchy) : RiskHierarchy[i] = t) - 1

Max(a, b) == IF a >= b THEN a ELSE b

(***************************************************************************)
(* Tools and argument mappings.  A tool is its name and its declared       *)
(* static tier; the gateway reads nothing else of it.                      *)
(***************************************************************************)
ToolNames ==
    {"echo", "shell", "bash", "file_reader", "python_execute", "markdown_generator",
     "bash_file_tool"}

\* the substring tests of _analyze_arguments on tool.name.lower()
NameContains(name, part) ==
    CASE part = "bash"    -> name \in {"bash", "bash_file_tool"}
      [] part = "file"    -> name \in {"file_reader", "bash_file_tool"}
      [] part = "python"  -> name \in {"python_execute"}
      [] part = "execute" -> name \in {"python_execute"}
      [] OTHER            -> FALSE

AllTools == [name : ToolNames, risk_tier : RiskTiers]

\* The registry the executor resolves names in: tools registered at startup.
ToolRegistry ==
    [n \in {"echo", "shell", "bash", "file_reader", "markdown_generator"} |->
        CASE n = "echo"               -> "read_only"
          [] n = "shell"              -> "execute"
          [] n = "bash"               -> "execute"
          [] n = "file_reader"        -> "read_only"
          [] n = "markdown_generator" -> "write"]

has_tool(name) == name \in DOMAIN ToolRegistry

RegistryGet(name) == [name |-> name, risk_tier |-> ToolRegistry[name]]

ArgNames == {"command", "file_path"}

ArgValuesOf(n) ==
    IF n = "command" THEN {"ls", "rm -rf build"} ELSE {"notes.txt", "/etc/passwd"}

ArgValues == UNION {ArgValuesOf(n) : n \in ArgNames}

ArgMaps ==
    UNION { {f \in [S -> ArgValues] : \A n \in S : f[n] \in ArgValuesOf(n)} : S \in SUBSET ArgNames }

\* re.search over _high_risk_patterns: of the model's commands, "rm -rf build"
\* matches r'\brm\b.*-[rf]' and "ls" matches no pattern
MatchesHighRiskPattern(command) == command \in {"rm -rf build"}

\* 'path' in arg_name.lower()
ArgNameHasPath(n) == n \in {"file_path"}

\* Path(path_str).resolve() starts with a system directory: an absolute path by
\* its own prefix, a relative one by the working directory it is resolved against
_is_system_path(path_str, cwdSys) ==
    IF path_str \in {"/etc/passwd"} THEN TRUE ELSE cwdSys

_analyze_arguments_file_first(tool, args, cwdSys) ==
    IF /\ NameContains(tool.name, "file")
       /\ \E n \in DOMAIN args : ArgNameHasPath(n) /\ _is_system_path(args[n], cwdSys)
    THEN "execute"
    ELSE IF /\ NameContains(tool.name, "bash")
            /\ "command" \in DOMAIN args
            /\ MatchesHighRiskPattern(args["command"])
    THEN "destructive"
    ELSE IF NameContains(tool.name, "python") /\ NameContains(tool.name, "execute")
    THEN "execute"
    ELSE "none"

\* the escalated tier, or "none"
_analyze_arguments(tool, args, cwdSys) ==
    IF /\ NameContains(tool.name, "bash")
       /\ "command" \in DOMAIN args
       /\ MatchesHighRiskPattern(args["command"])
    THEN "destructive"
    ELSE IF /\ NameContains(tool.name, "file")
            /\ \E n \in DOMAIN args : ArgNameHasPath(n) /\ _is_system_path(args[n], cwdSys)
    THEN "execute"
    ELSE IF NameContains(tool.name, "python") /\ NameContains(tool.name, "execute")
    THEN "execute"
    ELSE "none"

assess_risk_no_max(tool, args, cwdSys) ==
    LET escalated_risk == _analyze_arguments(tool, args, cwdSys)
    IN  IF escalated_risk = "none" THEN tool.risk_tier ELSE escalated_risk

assess_risk(tool, args, cwdSys) ==
    LET base_index      == HierarchyIndex(tool.risk_tier)
        escalated_risk  == _analyze_arguments(tool, args, cwdSys)
        escalated_index == IF escalated_risk = "none" THEN 0 ELSE HierarchyIndex(escalated_risk)
    IN  RiskHierarchy[Max(base_index, escalated_index) + 1]

(***************************************************************************)
(* Authorization (security.py:185-257).                                    *)
(***************************************************************************)
DENIAL_HISTORY_LIMIT == 100

\* the fields of SecurityConfig (core/config.py:16-25)
SecurityConfigFields ==
    {"confirmation_timeout", "max_retries", "enable_sandbox", "high_risk_patterns"}

\* self.config.security.<attr>: reading a field the model does not declare raises
ConfigSecurityReadable(attr) == attr \in SecurityConfigFields

\* what the confirmation callback does when it is invoked
CallbackReplies == {"approve", "deny", "raise"}

DenialRecord(tool, risk_tier, reason, args) ==
    [tool_name |-> tool.name, risk_tier |-> risk_tier, reason |-> reason, arguments |-> args]

\* _record_denial: append, then drop the oldest record beyond the limit
_record_denial_drop_newest(history, tool, risk_tier, reason, args) ==
    LET appended == Append(history, DenialRecord(tool, risk_tier, reason, args))
    IN  IF Len(appended) > DENIAL_HISTORY_LIMIT
        THEN SubSeq(appended, 1, DENIAL_HISTORY_LIMIT)
        ELSE appended

_record_denial(history, tool, risk_tier, reason, args) ==
    LET appended == Append(history, DenialRecord(tool, risk_tier, reason, args))
    IN  IF Len(appended) > DENIAL_HISTORY_LIMIT THEN Tail(appended) ELSE appended

\* the outcome of an authorization: what it returned ("allow", "deny") or that
\* it raised ("fault"), how often it invoked the callback, and the history after
AuthOutcome(result, cb_calls, fault, history) ==
    [result |-> result, cb_calls |-> cb_calls, fault |-> fault, history |-> history]

_request_user_confirmation_skip_record(tool, risk_tier, args, cb, reply, history) ==
    IF ~cb
    THEN AuthOutcome("deny", 0, "none", history)
    ELSE IF ~ConfigSecurityReadable("confirmation_timeout_seconds")
    THEN AuthOutcome("fault", 0, "AttributeError", history)
    ELSE CASE reply = "approve" -> AuthOutcome("allow", 1, "none", history)
           [] reply = "deny"    -> AuthOutcome("deny", 1, "none", history)
           [] OTHER             -> AuthOutcome("deny", 1, "none", history)

_request_user_confirmation(tool, risk_tier, args, cb, reply, history) ==
    IF ~cb
    THEN AuthOutcome("deny", 0, "none",
                     _record_denial(history, tool, risk_tier, "No confirmation callback", args))
    ELSE IF ~ConfigSecurityReadable("confirmation_timeout_seconds")
    THEN \* line 240 raises before the try block of line 242 is entered
         AuthOutcome("fault", 0, "AttributeError", history)
    ELSE CASE reply = "approve" -> AuthOutcome("allow", 1, "none", history)
           [] reply = "deny"    ->
                AuthOutcome("deny", 1, "none",
                            _record_denial(history, tool, risk_tier, "User denied", args))
           [] OTHER             ->
                AuthOutcome("deny", 1, "none",
                            _record_denial(history, tool, risk_tier, "Callback error", args))

check_authorization_allow_execute(tool, risk_tier, args, cb, reply, history) ==
    IF risk_tier \in {"read_only", "write", "execute"}
    THEN AuthOutcome("allow", 0, "none", history)
    ELSE _request_user_confirmation(tool, risk_tier, args, cb, reply, history)

check_authorization(tool, risk_tier, args, cb, reply, history) ==
    IF risk_tier = "read_only"
    THEN AuthOutcome("allow", 0, "none", history)
    ELSE IF risk_tier = "write"
    THEN AuthOutcome("allow", 0, "none", history)
    ELSE IF risk_tier \in {"execute", "destructive"}
    THEN _request_user_confirmation(tool, risk_tier, args, cb, reply, history)
    ELSE AuthOutcome("deny", 0, "none", history)

(***************************************************************************)
(* Exceptions (core/exceptions.py).  Constructing an exception binds the   *)
(* call's arguments to the constructor's parameters; a call that does not  *)
(* bind raises TypeError in place of the exception it was building.        *)
(***************************************************************************)
\* SecurityGatewayError.__init__(self, message, tool_name, risk_tier, details=None)
SecurityGatewayErrorInit(n_positional, keywords) ==
    IF n_positional \in 3..4 /\ keywords \subseteq {"details"}
    THEN "SecurityGatewayError"
    ELSE "TypeError"

\* the exception that leaves execute_tool when authorization did not allow the
\* call: the denial's raise at line 345, or the fault of the authorization
\* itself, each passed through the except clauses of lines 354-362
ExecuteToolRaises(auth) ==
    LET first == IF auth.result = "fault"
                 THEN auth.fault
                 ELSE SecurityGatewayErrorInit(2, {})
    IN  IF first = "SecurityGatewayError"
        THEN first
        ELSE SecurityGatewayErrorInit(2, {"cause"})

(***************************************************************************)
(* SecurityGateway.execute_tool (security.py:322-362) in three steps:      *)
(* assess the risk, check the authorization, run the tool; and the         *)
(* executor's _execute_tool_call (executor.py:287-353) around it.          *)
(***************************************************************************)
NoTool == [name |-> "none", risk_tier |-> "none"]

NoArgs == <<>>

IdleGw ==
    [pc |-> "idle", tool |-> NoTool, args |-> NoArgs,
     reply |-> "none", risk |-> "none", auth |-> "none", cb_calls |-> 0,
     ran |-> FALSE, raised |-> "none", output |-> "none", history_before |-> <<>>]

IdleEx == [pc |-> "idle", tool_name |-> "none", result |-> "none"]

NewGw(tool, args) ==
    [IdleGw EXCEPT !.pc = "assess", !.tool = tool, !.args = args]

\* names a reasoning-engine response may put in a tool call
CallableNames == DOMAIN ToolRegistry \cup {"nonexistent"}

\* a denial history the gateway has accumulated before the modelled calls
FillerDenial ==
    DenialRecord(RegistryGet("shell"), "execute", "No confirmation callback", ("command" :> "ls"))

FilledHistory(n) == [i \in 1..n |-> FillerDenial]

\* _execute_tool_call up to the call of the gateway: a name the registry does
\* not hold gives a failed result at once, without the gateway
ExecToolCall(tool_name, arguments) ==
    /\ gw.pc \in {"idle", "returned", "raised"}
    /\ ex.pc \in {"idle", "done"}
    /\ calls < MaxCalls
    /\ calls' = calls + 1
    /\ IF ~has_tool(tool_name)
       THEN /\ ex' = [pc |-> "done", tool_name |-> tool_name, result |-> "not_found"]
            /\ gw' = IdleGw
       ELSE /\ ex' = [pc |-> "waiting", tool_name |-> tool_name, result |-> "none"]
            /\ gw' = NewGw(RegistryGet(tool_name), arguments)
    /\ UNCHANGED <<hasCallback, cwdSystem, denied_operations, notGw>>

\* risk_tier = self.assess_risk(tool, **kwargs)
GwAssess ==
    /\ gw.pc = "assess"
    /\ gw' = [gw EXCEPT !.pc = "authorize",
                        !.risk = assess_risk(gw.tool, gw.args, cwdSystem)]
    /\ UNCHANGED <<hasCallback, cwdSystem, denied_operations, ex, calls, notGw>>

\* the frame after the authorization: on to the run when it allowed the call,
\* out of execute_tool with an exception otherwise
AfterAuthorizationIgnoringResult(frame, auth, reply) ==
    [frame EXCEPT !.pc = "run", !.auth = auth.result, !.cb_calls = auth.cb_calls,
                  !.reply = reply]

AfterAuthorization(frame, auth, reply) ==
    IF auth.result = "allow"
    THEN [frame EXCEPT !.pc = "run", !.auth = auth.result, !.cb_calls = auth.cb_calls,
                       !.reply = reply]
    ELSE [frame EXCEPT !.pc = "raised", !.auth = auth.result, !.cb_calls = auth.cb_calls,
                       !.reply = reply, !.raised = ExecuteToolRaises(auth)]

\* if not self.check_authorization(tool, risk_tier, **kwargs): raise ...
\* (history_before keeps the denial history the authorization started from)
GwAuthorize ==
    /\ gw.pc = "authorize"
    /\ \E reply \in (IF hasCallback /\ gw.risk \in {"execute", "destructive"}
                     THEN CallbackReplies ELSE {"none"}) :
         LET auth == check_authorization(gw.tool, gw.risk, gw.args, hasCallback, reply,
                                         denied_operations)
         IN  /\ denied_operations' = auth.history
             /\ gw' = [AfterAuthorization(gw, auth, reply)
                        EXCEPT !.history_before = denied_operations]
    /\ UNCHANGED <<hasCallback, cwdSystem, ex, calls, notGw>>

\* return tool.run(**kwargs): Tool.run (tools/base.py:94-126) turns every fault
\* of the tool into a failed ToolOutput, so the run returns
GwRun ==
    /\ gw.pc = "run"
    /\ \E out \in {"ok", "failed"} :
         gw' = [gw EXCEPT !.pc = "returned", !.ran = TRUE, !.output = out]
    /\ UNCHANGED <<hasCallback, cwdSystem, denied_operations, ex, calls, notGw>>

\* _execute_tool_call after the gateway: the result, or the captured exception
ExecFinish ==
    /\ ex.pc = "waiting"
    /\ gw.pc \in {"returned", "raised"}
    /\ ex' = [ex EXCEPT !.pc = "done",
                        !.result = IF gw.pc = "raised" THEN "error" ELSE gw.output]
    /\ UNCHANGED <<hasCallback, cwdSystem, denied_operations, gw, calls, notGw>>

(***************************************************************************)
(* The Dispatcher (agents/dispatcher.py).                                  *)
(***************************************************************************)
ROUTING_HISTORY_LIMIT == 100

AgentNames == {"GeneralAgent", "SWEAgent", "ResearchAgent", "SpecialistAgent"}

\* prompts of the model and the keyword tests of _heuristic_routing on them
Prompts == {"fix the bug", "research the topic", "debug and analyze", "say hello"}

\* any(word in prompt_lower for word in ['code', 'script', 'program', 'function',
\* 'class', 'bug', 'debug'])
HasCodeKeyword(prompt) == prompt \in {"fix the bug", "debug and analyze"}

\* any(word in prompt_lower for word in ['research', 'search', 'find',
\* 'investigate', 'analyze', 'study'])
HasResearchKeyword(prompt) == prompt \in {"research the topic", "debug and analyze"}

\* excluded_agents arguments of the model; None and [] behave alike
ExcludedLists ==
    { <<>>,
      <<"GeneralAgent">>,
      <<"GeneralAgent", "SWEAgent">>,
      <<"GeneralAgent", "SWEAgent", "ResearchAgent", "SpecialistAgent">> }

\* first lines of a routing callback's reply, as the boilerplate prefixes they
\* start with followed by the rest of the line; "raise" is a failing callback
RoutingReplies ==
    { <<"SWEAgent">>,
      <<"Selected Agent:", "Agent:", "ResearchAgent">>,
      <<"Agent:", "Selected Agent:", "SWEAgent">>,
      <<"NoSuchAgent">>,
      <<"raise">> }

Range(seq) == {seq[i] : i \in 1..Len(seq)}

\* the order-keeping filter of a dict comprehension
RECURSIVE SelectSeqNotIn(_, _)
SelectSeqNotIn(seq, excluded) ==
    IF seq = <<>> THEN <<>>
    ELSE IF Head(seq) \in excluded
         THEN SelectSeqNotIn(Tail(seq), excluded)
         ELSE <<Head(seq)>> \o SelectSeqNotIn(Tail(seq), excluded)

\* available_agents of route_task, in registration order
AvailableAgentsIgnoringExclusion(registered, excluded_agents) == registered

AvailableAgents(registered, excluded_agents) ==
    SelectSeqNotIn(registered, Range(excluded_agents))

_heuristic_routing(prompt, registered) ==
    IF HasCodeKeyword(prompt) /\ "SWEAgent" \in Range(registered)
    THEN "SWEAgent"
    ELSE IF HasResearchKeyword(prompt) /\ "ResearchAgent" \in Range(registered)
    THEN "ResearchAgent"
    ELSE IF "GeneralAgent" \in Range(registered)
    THEN "GeneralAgent"
    ELSE Head(registered)

RoutingPrefixes == <<"Selected Agent:", "Agent:", "I choose:", "The best agent is:">>

\* the prefix loop of _make_routing_decision: each prefix, in order, is removed
\* when the line starts with it at that moment
RECURSIVE StripPrefixes(_, _)
StripPrefixes(line, prefixes) ==
    IF prefixes = <<>> THEN line
    ELSE IF line # <<>> /\ Head(line) = Head(prefixes)
         THEN StripPrefixes(Tail(line), Tail(prefixes))
         ELSE StripPrefixes(line, Tail(prefixes))

\* the cleaned reply as a name: a line that still carries a prefix names no agent
CleanedName(line) ==
    LET rest == StripPrefixes(line, RoutingPrefixes)
    IN  IF rest = <<>> THEN "" ELSE IF Len(rest) = 1 THEN rest[1] ELSE "unclean reply"

_make_routing_decision(prompt, registered, llm, reply) ==
    IF ~llm THEN _heuristic_routing(prompt, registered)
    ELSE IF reply = <<"raise">> THEN _heuristic_routing(prompt, registered)
    ELSE CleanedName(reply)

\* lines 126-129: a selection outside the available agents falls back to the
\* first available agent
ValidatedSelectionUnchecked(selected_agent, available) == selected_agent

ValidatedSelection(selected_agent, available) ==
    IF selected_agent \in Range(available) THEN selected_agent ELSE Head(available)

RoutingDecisionRecord(prompt, selected_agent, registered, excluded_agents) ==
    [prompt |-> prompt, selected_agent |-> selected_agent,
     available_agents |-> registered, excluded_agents |-> excluded_agents,
     routing_attempt |-> IF excluded_agents # <<>> THEN Len(excluded_agents) + 1 ELSE 1]

_record_routing_decision(history, prompt, selected_agent, registered, excluded_agents) ==
    LET appended ==
          Append(history, RoutingDecisionRecord(prompt, selected_agent, registered, excluded_agents))
    IN  IF Len(appended) > ROUTING_HISTORY_LIMIT THEN Tail(appended) ELSE appended

\* AgentExecutionError.__init__(self, message, agent_name, details=None, cause=None)
AgentExecutionErrorInit(n_positional, keywords) ==
    IF n_positional \in 2..4 /\ keywords \subseteq {"details", "cause"}
    THEN "AgentExecutionError"
    ELSE "TypeError"

\* the exception that leaves route_task when no agent is registered or none is
\* left: the raise of lines 99-102 or 112-115 builds its exception from two
\* positional arguments, and the except clause of lines 137-143 wraps whatever
\* was raised in a new one built with the keyword cause
RouteTaskRaises ==
    LET first == AgentExecutionErrorInit(2, {})
    IN  AgentExecutionErrorInit(2, {"cause"})

NoRoute ==
    [kind |-> "none", prompt |-> "none", excluded |-> <<>>, reply |-> <<>>,
     name |-> "none", history_before |-> <<>>]

\* Agents are registered and unregistered while the application starts, before
\* the first task is routed.
\* register_agent: a dict assignment, which keeps the place of a name it holds
RegisterAgent(name) ==
    /\ routes = 0
    /\ specialist_agents' =
         IF name \in Range(specialist_agents) THEN specialist_agents
         ELSE Append(specialist_agents, name)
    /\ route' = NoRoute
    /\ UNCHANGED <<llm_callback, routing_history, routes, notDp>>

\* unregister_agent: pop(agent_name, None)
UnregisterAgent(name) ==
    /\ routes = 0
    /\ specialist_agents' = SelectSeqNotIn(specialist_agents, {name})
    /\ route' = NoRoute
    /\ UNCHANGED <<llm_callback, routing_history, routes, notDp>>

\* route_task(prompt, conversation, excluded_agents): every failure inside leaves
\* as AgentExecutionError (lines 137-143)
RouteTask(prompt, excluded_agents, reply) ==
    /\ routes < MaxRoutes
    /\ routes' = routes + 1
    /\ LET available == AvailableAgents(specialist_agents, excluded_agents)
       IN  IF specialist_agents = <<>> \/ available = <<>>
           THEN /\ route' = [kind |-> "raised", prompt |-> prompt,
                             excluded |-> excluded_agents, reply |-> reply,
                             name |-> RouteTaskRaises,
                             history_before |-> routing_history]
                /\ UNCHANGED routing_history
           ELSE LET selected_agent ==
                      ValidatedSelection(
                          _make_routing_decision(prompt, specialist_agents, llm_callback, reply),
                          available)
                IN  /\ routing_history' =
                         _record_routing_decision(routing_history, prompt, selected_agent,
                                                  specialist_agents, excluded_agents)
                    /\ route' = [kind |-> "returned", prompt |-> prompt,
                                 excluded |-> excluded_agents, reply |-> reply,
                                 name |-> selected_agent,
                                 history_before |-> routing_history]
    /\ UNCHANGED <<llm_callback, specialist_agents, notDp>>

FillerDecision ==
    RoutingDecisionRecord("say hello", "GeneralAgent", <<"GeneralAgent">>, <<>>)

FilledRoutingHistory(n) == [i \in 1..n |-> FillerDecision]

(***************************************************************************)
(* The retry loop of the application (app.py, _execute_with_retry).        *)
(* A prompt is the sequence of the user's text and the context notes       *)
(* appended to it, each note named by the agent it mentions.               *)
(***************************************************************************)
\* the specialists the application registers (app.py:141-145)
RetryAgents == <<"GeneralAgent", "SWEAgent", "ResearchAgent">>

UserPrompt == <<"Complex task">>

RejectionMessages == {"Task not suitable", "Out of scope"}

NoMetadata == <<>>

\* results an agent's run may return
SuccessResult ==
    [content |-> <<"Task completed successfully">>, success |-> TRUE,
     error |-> <<>>, error_code |-> "none", metadata |-> NoMetadata]

RejectedResult(message) ==
    [content |-> <<"Cannot handle this task">>, success |-> FALSE,
     error |-> <<message>>, error_code |-> "TASK_REJECTED_AS_INAPPROPRIATE",
     metadata |-> NoMetadata]

FailedResult ==
    [content |-> <<>>, success |-> FALSE,
     error |-> <<"Tool failed">>, error_code |-> "TOOL_EXECUTION_FAILED",
     metadata |-> NoMetadata]

AgentResults ==
    {SuccessResult, FailedResult} \cup {RejectedResult(m) : m \in RejectionMessages}

NoResult ==
    [content |-> <<>>, success |-> FALSE, error |-> <<>>, error_code |-> "none",
     metadata |-> NoMetadata]

\* how a call of selected_agent.run ends: with a result, or raising
AgentRuns ==
    [raised : {FALSE}, result : AgentResults] \cup {[raised |-> TRUE, result |-> NoResult]}

\* line 558
IsRejectionAnyFailure(result) == ~result.success

IsRejection(result) ==
    ~result.success /\ result.error_code = "TASK_REJECTED_AS_INAPPROPRIATE"

\* lines 565 and 606
CanRetryThroughLast(attempt, max_retries) == attempt < max_retries

CanRetry(attempt, max_retries) == attempt < max_retries - 1

\* the excluded_agents argument of the call route_task(task_input) at line 552:
\* none is passed, so the parameter keeps its default (dispatcher.py:76-80);
\* rejected_agents travels only in task_input.parameters
RouteCallExcluded(rejected_agents) == <<>>

\* lines 575-587 (the variant hands the last rejection back as it is)
RejectionFinalResultAsReceived(result, max_retries, rejected_agents) ==
    result

RejectionFinalResult(result, max_retries, rejected_agents) ==
    [content |-> <<"I'm sorry, I was unable to complete the task.">> \o result.error,
     success |-> FALSE,
     error |-> <<"Unable to complete task after", ToString(max_retries),
                 "attempts. Last rejection:">> \o result.error,
     error_code |-> "AGENT_EXECUTION_FAILED",
     metadata |-> [final_failure |-> TRUE, attempts |-> max_retries,
                   rejected_agents |-> rejected_agents, last_error |-> result.error]]

\* lines 610-621
ExceptionFinalResult(attempt, max_retries) ==
    [content |-> <<"I'm sorry, an unexpected error occurred">>,
     success |-> FALSE,
     error |-> <<"Error in task execution attempt", ToString(attempt + 1)>>,
     error_code |-> "AGENT_EXECUTION_FAILED",
     metadata |-> [final_failure |-> TRUE, attempts |-> max_retries,
                   error_type |-> "exception"]]

\* lines 630-636
FallbackResult ==
    [content |-> <<"Unexpected error in retry logic">>, success |-> FALSE,
     error |-> <<"Retry logic failure">>, error_code |-> "AGENT_EXECUTION_FAILED",
     metadata |-> NoMetadata]

IdleRt ==
    [pc |-> "idle", max_retries |-> 0, attempt |-> 0, prompt |-> <<>>,
     rejected_agents |-> <<>>, selected_agent |-> "none", result |-> NoResult]

Message(role, content) == [role |-> role, content |-> content]

\* the for statement of line 533 taking its next value, or the loop running out
LoopNext(frame, attempt) ==
    IF attempt < frame.max_retries
    THEN [frame EXCEPT !.pc = "route", !.attempt = attempt, !.selected_agent = "none"]
    ELSE [frame EXCEPT !.pc = "done", !.result = FallbackResult]

Returned(frame, result) == [frame EXCEPT !.pc = "done", !.result = result]

\* a call of _execute_with_retry(prompt, max_retries)
RtStart(max_retries) ==
    /\ rt.pc = "idle"
    /\ rt' = LoopNext([IdleRt EXCEPT !.max_retries = max_retries,
                                     !.prompt = UserPrompt], 0)
    /\ UNCHANGED <<thread, session_stats, attempts, notRt>>

\* the except clause of lines 602-627, entered with the messages of the thread
\* (the variant treats the fault as a rejection by the selected agent)
HandleExceptionAsRejection(messages) ==
    IF CanRetry(rt.attempt, rt.max_retries)
    THEN /\ rt' = LoopNext([rt EXCEPT !.rejected_agents = Append(@, rt.selected_agent),
                                      !.prompt = Append(@, rt.selected_agent)],
                           rt.attempt + 1)
         /\ thread' = messages
    ELSE LET final_result == ExceptionFinalResult(rt.attempt, rt.max_retries)
         IN  /\ rt' = Returned(rt, final_result)
             /\ thread' = Append(messages, Message("assistant", final_result.content))

HandleException(messages) ==
    IF CanRetry(rt.attempt, rt.max_retries)
    THEN /\ rt' = LoopNext(rt, rt.attempt + 1)
         /\ thread' = messages
    ELSE LET final_result == ExceptionFinalResult(rt.attempt, rt.max_retries)
         IN  /\ rt' = Returned(rt, final_result)
             /\ thread' = Append(messages, Message("assistant", final_result.content))

\* lines 535-552 of one attempt: the user message, the task input and the
\* dispatcher's route_task, which returns one of the agents left after its
\* exclusion argument or raises
RtRoute(routed) ==
    /\ rt.pc = "route"
    /\ LET messages == Append(thread, Message("user", rt.prompt))
           excluded == RouteCallExcluded(rt.rejected_agents)
       IN  /\ routed \in Range(AvailableAgents(RetryAgents, excluded)) \cup {"raise"}
           /\ attempts' = Append(attempts,
                  [agent |-> IF routed = "raise" THEN "none" ELSE routed,
                   prompt |-> rt.prompt,
                   routed_against |-> excluded,
                   rejected_before |-> rt.rejected_agents,
                   outcome |-> IF routed = "raise" THEN "route raised" ELSE "routed",
                   result |-> NoResult])
           /\ IF routed = "raise"
              THEN HandleException(messages)
              ELSE /\ rt' = [rt EXCEPT !.pc = "run", !.selected_agent = routed]
                   /\ thread' = messages
    /\ UNCHANGED <<session_stats, notRt>>

Outcome(result) ==
    IF result.success THEN "success"
    ELSE IF result.error_code = "TASK_REJECTED_AS_INAPPROPRIATE" THEN "rejected"
    ELSE "failed"

\* lines 555-627 of one attempt: the agent's run and what the loop does with it
RtRun(ran) ==
    /\ rt.pc = "run"
    /\ ran \in AgentRuns
    /\ attempts' = [attempts EXCEPT ![Len(attempts)] =
           IF ran.raised THEN [@ EXCEPT !.outcome = "run raised"]
           ELSE [@ EXCEPT !.outcome = Outcome(ran.result), !.result = ran.result]]
    /\ IF ran.raised
       THEN HandleException(thread) /\ UNCHANGED session_stats
       ELSE IF IsRejection(ran.result)
       THEN LET rejected_agents == Append(rt.rejected_agents, rt.selected_agent)
            IN  /\ session_stats' =
                     [session_stats EXCEPT !.rejections_handled = @ + 1]
                /\ IF CanRetry(rt.attempt, rt.max_retries)
                   THEN /\ rt' = LoopNext(
                               [rt EXCEPT !.rejected_agents = rejected_agents,
                                          !.prompt = Append(@, rt.selected_agent)],
                               rt.attempt + 1)
                        /\ UNCHANGED thread
                   ELSE LET final_result ==
                              RejectionFinalResult(ran.result, rt.max_retries,
                                                   rejected_agents)
                        IN  /\ rt' = Returned(
                                   [rt EXCEPT !.rejected_agents = rejected_agents],
                                   final_result)
                            /\ thread' = Append(thread,
                                   Message("assistant", final_result.content))
       ELSE /\ rt' = Returned(rt, ran.result)
            /\ thread' = IF ran.result.content # <<>>
                         THEN Append(thread, Message("assistant", ran.result.content))
                         ELSE thread
            /\ UNCHANGED session_stats
    /\ UNCHANGED notRt

(***************************************************************************)
(* The Agent Executor (agents/executor.py).  A text is the sequence of its *)
(* tokens: the marker, the braces, JSON strings, and other wording.        *)
(***************************************************************************)
Marker == "TOOL_CALL:"

\* tokens that are no JSON string: the braces and unquoted wording
NotJsonStrings == {"{", "}", "not json", Marker}

\* the tokens of the entries of an arguments object, in a fixed order
ArgTokens(arguments) ==
    (IF "command" \in DOMAIN arguments
     THEN <<"command", arguments["command"]>> ELSE <<>>)
    \o (IF "file_path" \in DOMAIN arguments
        THEN <<"file_path", arguments["file_path"]>> ELSE <<>>)

\* the wire format the system prompt asks for (lines 229-236): the marker and a
\* JSON object with a tool_name string and an arguments object
WireText(tool_name, arguments) ==
    <<Marker, "{", "tool_name", tool_name, "arguments", "{">>
    \o ArgTokens(arguments) \o <<"}", "}">>

\* a tool call without the arguments entry
BareCallText(tool_name) == <<Marker, "{", "tool_name", tool_name, "}">>

\* responses of the reasoning engine
Responses ==
    { <<"The task is done.">>,
      <<"I need a tool.">> \o BareCallText("nonexistent") \o <<"Then I go on.">>,
      BareCallText("markdown_generator"),
      BareCallText("shell"),
      <<"I need a tool.">> \o WireText("file_reader", ("file_path" :> "notes.txt")),
      WireText("markdown_generator", <<>>),
      WireText("nonexistent", <<>>),
      <<Marker, "{", "not json", "}">>,
      <<Marker, "{", "name", "shell", "}">> }

\* the first "}" of a text from position i on, or 0
RECURSIVE FirstClose(_, _)
FirstClose(text, i) ==
    IF i > Len(text) THEN 0
    ELSE IF text[i] = "}" THEN i
    ELSE FirstClose(text, i + 1)

\* re.search(r'TOOL_CALL:\s*\{([^}]+)\}', text): the positions where the
\* pattern matches, a match being the marker, an opening brace and one or more
\* tokens up to the first closing brace
MatchStarts(text) ==
    {i \in 1..Len(text) :
        /\ text[i] = Marker
        /\ i + 1 <= Len(text)
        /\ text[i + 1] = "{"
        /\ FirstClose(text, i + 2) > i + 2}

\* match.group(1) of the leftmost match
MatchGroup(text) ==
    LET i == CHOOSE k \in MatchStarts(text) : \A m \in MatchStarts(text) : k <= m
    IN  SubSeq(text, i + 2, FirstClose(text, i + 2) - 1)

\* json.loads('{' + group + '}') for a group that holds no closing brace: the
\* text has one closing brace, at its end, so it is a JSON object exactly when
\* the group opens no object of its own and is a sequence of pairs of strings
JsonDecodes(group) ==
    /\ Len(group) % 2 = 0
    /\ \A k \in 1..Len(group) : group[k] \notin NotJsonStrings

\* the keys of the decoded object and the value of each (the last one given)
JsonKeys(group) == {group[2 * k - 1] : k \in 1..(Len(group) \div 2)}

JsonValue(group, key) ==
    LET k == CHOOSE n \in 1..(Len(group) \div 2) :
                 /\ group[2 * n - 1] = key
                 /\ \A m \in (n + 1)..(Len(group) \div 2) : group[2 * m - 1] # key
    IN  group[2 * k]

NoCall == [found |-> FALSE, tool_name |-> "none", arguments |-> NoArgs]

_extract_tool_call_whole_object(llm_response) ==
    IF \E i \in 1..Len(llm_response) : llm_response[i] = Marker
    THEN [found |-> TRUE, tool_name |-> "nonexistent", arguments |-> NoArgs]
    ELSE NoCall

\* _extract_tool_call (lines 250-285)
_extract_tool_call(llm_response) ==
    IF MatchStarts(llm_response) = {} THEN NoCall
    ELSE LET group == MatchGroup(llm_response)
         IN  IF ~JsonDecodes(group) THEN NoCall
             ELSE IF "tool_name" \notin JsonKeys(group) THEN NoCall
             ELSE [found |-> TRUE,
                   tool_name |-> JsonValue(group, "tool_name"),
                   arguments |-> IF "arguments" \in JsonKeys(group)
                                 THEN JsonValue(group, "arguments")
                                 ELSE NoArgs]

\* what tool.run returns (tools/base.py:94-126): a ToolOutput, successful with
\* the artifact it produced or failed with none; Tool.run raises nothing
ToolOutputs(artifact) ==
    { [success |-> TRUE, artifacts |-> <<artifact>>],
      [success |-> FALSE, artifacts |-> <<>>] }

LogEntry(iteration, step_type, data) ==
    [iteration |-> iteration, step_type |-> step_type, data |-> data]

\* _execute_tool_call (lines 287-353) with the gateway's execute_tool inside it:
\* the result handed to the loop, the artifacts collected, the log entry added,
\* the gateway's denial history afterwards and whether the gateway was called
\* and the tool ran
ToolCallOutcome(result, artifacts, log, history, gateway_called, ran) ==
    [result |-> result, artifacts |-> artifacts, log |-> log, history |-> history,
     gateway_called |-> gateway_called, ran |-> ran]

_execute_tool_call_uncaught(tool_call, iteration, cb, cwdSys, reply, history, run) ==
    IF ~has_tool(tool_call.tool_name)
    THEN ToolCallOutcome(
             [success |-> FALSE, aborted |-> FALSE,
              text_summary |-> <<"Error: Tool not found in registry", tool_call.tool_name>>],
             <<>>, <<>>, history, FALSE, FALSE)
    ELSE LET tool == RegistryGet(tool_call.tool_name)
             risk == assess_risk(tool, tool_call.arguments, cwdSys)
             auth == check_authorization(tool, risk, tool_call.arguments, cb, reply, history)
         IN  IF auth.result = "allow"
             THEN ToolCallOutcome(
                      [success |-> run.success, aborted |-> FALSE,
                       text_summary |-> <<"Output of", tool.name>>],
                      run.artifacts,
                      <<LogEntry(iteration, "tool_execution",
                                 [tool_name |-> tool.name, success |-> run.success,
                                  artifacts_count |-> Len(run.artifacts)])>>,
                      auth.history, TRUE, TRUE)
             ELSE ToolCallOutcome(
                      [success |-> FALSE, aborted |-> TRUE,
                       text_summary |-> <<"Error executing", tool.name,
                                          ExecuteToolRaises(auth)>>],
                      <<>>, <<>>, auth.history, TRUE, FALSE)

_execute_tool_call(tool_call, iteration, cb, cwdSys, reply, history, run) ==
    IF ~has_tool(tool_call.tool_name)
    THEN ToolCallOutcome(
             [success |-> FALSE, aborted |-> FALSE,
              text_summary |-> <<"Error: Tool not found in registry", tool_call.tool_name>>],
             <<>>, <<>>, history, FALSE, FALSE)
    ELSE LET tool == RegistryGet(tool_call.tool_name)
             risk == assess_risk(tool, tool_call.arguments, cwdSys)
             auth == check_authorization(tool, risk, tool_call.arguments, cb, reply, history)
         IN  IF auth.result = "allow"
             THEN ToolCallOutcome(
                      [success |-> run.success, aborted |-> FALSE,
                       text_summary |-> <<"Output of", tool.name>>],
                      run.artifacts,
                      <<LogEntry(iteration, "tool_execution",
                                 [tool_name |-> tool.name, success |-> run.success,
                                  artifacts_count |-> Len(run.artifacts)])>>,
                      auth.history, TRUE, TRUE)
             ELSE \* the except clause of lines 338-353
                  ToolCallOutcome(
                      [success |-> FALSE, aborted |-> FALSE,
                       text_summary |-> <<"Error executing", tool.name,
                                          ExecuteToolRaises(auth)>>],
                      <<>>,
                      <<LogEntry(iteration, "tool_execution_error",
                                 [tool_name |-> tool.name,
                                  error |-> ExecuteToolRaises(auth)])>>,
                      auth.history, TRUE, FALSE)

\* _build_followup_prompt: the initial prompt, the response that held the call,
\* the tool's name and the result's text_summary
_build_followup_prompt(llm_response, tool_call, tool_result) ==
    <<"Previous response:">> \o llm_response
    \o <<"Tool call executed:", tool_call.tool_name, "Tool result:">>
    \o tool_result.text_summary

\* _generate_mock_response
MockResponse ==
    <<"Mock response: Task would be executed with available tools. No LLM callback configured.">>

\* the message of line 179
PartialCompletion(max_iterations) ==
    <<"Task partially completed. Reached maximum iteration limit", ToString(max_iterations)>>

DEFAULT_MAX_ITERATIONS == 10

\* the executor after construction (lines 34-60)
\* collected_artifacts and execution_log refer to list objects: the two lists
\* the constructor creates are the first two objects of the heap
NewExecutor(llm, max_iterations) ==
    [llm_callback |-> llm, max_iterations |-> max_iterations,
     current_iteration |-> 0, collected_artifacts |-> 1, execution_log |-> 2]

NewHeap == << <<>>, <<>> >>

\* before the call the frame holds the tools entry of the task input the call
\* will be given: <<>> stands for no entry and for an empty list, which the
\* test of line 191 treats alike
IdleInv ==
    [pc |-> "idle", main_prompt |-> "none", iteration |-> 0,
     current_prompt |-> <<>>, llm_response |-> <<>>, tool_call |-> NoCall,
     llm_calls |-> 0, gateway_calls |-> 0, tool_runs |-> 0, invocations |-> 0,
     available_tools |-> <<>>, tools_context |-> {}]

\* _build_tools_context (lines 181-213): the tools the context describes to
\* the reasoning engine
_build_tools_context(specific_tools) ==
    IF specific_tools # <<>>
    THEN {specific_tools[i] : i \in {j \in DOMAIN specific_tools :
                                         has_tool(specific_tools[j])}}
    ELSE DOMAIN ToolRegistry

\* the dictionary of lines 104-110, or of lines 115-122 when invoke caught an
\* exception; its artifacts and execution_log are the executor's list objects
InvokeResult(exec, output, success) ==
    [output |-> output, artifacts |-> exec.collected_artifacts,
     iterations |-> exec.current_iteration, execution_log |-> exec.execution_log,
     success |-> success]

\* invoke's prompts: "" stands for a missing or empty input
MainPrompts == {"Test task", ""}

\* the return of invoke: the result joins the results returned so far (in the
\* variant a failure leaves invoke as an exception and no result is returned)
InvokeReturnsOrRaises(exec, frame, output, success) ==
    /\ executor' = exec
    /\ inv' = [frame EXCEPT !.pc = "done"]
    /\ returned' = IF success THEN Append(returned, InvokeResult(exec, output, success))
                   ELSE returned

InvokeReturns(exec, frame, output, success) ==
    /\ executor' = exec
    /\ inv' = [frame EXCEPT !.pc = "done"]
    /\ returned' = Append(returned, InvokeResult(exec, output, success))

\* the for statement of line 140 taking its next value, or the loop running
\* out and invoke returning the message of line 179
ReasoningLoopNextPastCap(exec, frame, iteration) ==
    IF iteration <= exec.max_iterations
    THEN /\ executor' = exec
         /\ inv' = [frame EXCEPT !.pc = "reason", !.iteration = iteration]
         /\ UNCHANGED returned
    ELSE InvokeReturns(exec, frame, PartialCompletion(exec.max_iterations), TRUE)

ReasoningLoopNext(exec, frame, iteration) ==
    IF iteration < exec.max_iterations
    THEN /\ executor' = exec
         /\ inv' = [frame EXCEPT !.pc = "reason", !.iteration = iteration]
         /\ UNCHANGED returned
    ELSE InvokeReturns(exec, frame, PartialCompletion(exec.max_iterations), TRUE)

\* the reset of lines 82-84: the counter is zeroed, the two attributes are
\* bound to two new empty lists
ResetInPlace(exec, objects) ==
    [exec  |-> [exec EXCEPT !.current_iteration = 0],
     heap  |-> [objects EXCEPT ![exec.collected_artifacts] = <<>>,
                               ![exec.execution_log] = <<>>]]

ResetExecutionState(exec, objects) ==
    [exec  |-> [exec EXCEPT !.current_iteration = 0,
                            !.collected_artifacts = Len(objects) + 1,
                            !.execution_log = Len(objects) + 2],
     heap  |-> objects \o << <<>>, <<>> >>]

\* invoke up to the reasoning loop (lines 78-101): the reset of the execution
\* state and the check of the prompt
Invoke(main_prompt) ==
    /\ inv.pc \in {"idle", "done"}
    /\ produced' = <<>>
    /\ LET reset == ResetExecutionState(executor, heap)
           frame == [IdleInv EXCEPT
                        !.main_prompt = main_prompt,
                        !.invocations = inv.invocations + 1,
                        !.available_tools = inv.available_tools,
                        !.tools_context =
                            IF main_prompt = "" THEN {}
                            ELSE _build_tools_context(inv.available_tools)]
       IN  /\ heap' = reset.heap
           /\ IF main_prompt = ""
              THEN InvokeReturns(reset.exec, frame,
                                 <<"Task execution failed:", "No input prompt provided">>,
                                 FALSE)
              ELSE ReasoningLoopNext(reset.exec, frame, 0)
    /\ UNCHANGED <<gwVars, notX>>

\* the first half of an iteration (lines 141-164): the reasoning call, its log
\* entry and the parse of the response
AfterResponseNeverFinal(exec, frame, llm_response) ==
    /\ executor' = exec
    /\ inv' = [frame EXCEPT !.pc = "tool",
                            !.tool_call = _extract_tool_call(llm_response)]
    /\ UNCHANGED returned

AfterResponse(exec, frame, llm_response) ==
    LET tool_call == _extract_tool_call(llm_response)
    IN  IF ~tool_call.found
        THEN InvokeReturns(exec, frame, llm_response, TRUE)
        ELSE /\ executor' = exec
             /\ inv' = [frame EXCEPT !.pc = "tool", !.tool_call = tool_call]
             /\ UNCHANGED returned

\* the test of line 146
EngineAssumedConfigured(exec) == TRUE

EngineConfigured(exec) == exec.llm_callback

Reason(llm_response) ==
    /\ inv.pc = "reason"
    /\ LET exec == [executor EXCEPT !.current_iteration = inv.iteration + 1]
       IN  IF ~EngineConfigured(executor)
           THEN /\ InvokeReturns(exec, inv, MockResponse, TRUE)
                /\ UNCHANGED heap
           ELSE LET frame == [inv EXCEPT !.llm_calls = @ + 1,
                                         !.llm_response = llm_response]
                IN  IF llm_response = <<"raise">>
                    THEN /\ InvokeReturns(exec, frame,
                                          <<"Task execution failed:", "raise">>, FALSE)
                         /\ UNCHANGED heap
                    ELSE /\ heap' = [heap EXCEPT ![exec.execution_log] =
                                        Append(@, LogEntry(exec.current_iteration,
                                                           "llm_response", llm_response))]
                         /\ AfterResponse(exec, frame, llm_response)
    /\ UNCHANGED <<produced, gwVars, notX>>

\* the second half of an iteration (lines 166-175): the tool call, through the
\* gateway, and the prompt of the next iteration
ExecuteToolCall(run, reply) ==
    /\ inv.pc = "tool"
    /\ LET outcome == _execute_tool_call(inv.tool_call, executor.current_iteration,
                                         hasCallback, cwdSystem, reply,
                                         denied_operations, run)
           prompt  == _build_followup_prompt(inv.llm_response, inv.tool_call,
                                             outcome.result)
           frame   == [inv EXCEPT
                          !.current_prompt = prompt,
                          !.gateway_calls = @ + (IF outcome.gateway_called THEN 1 ELSE 0),
                          !.tool_runs = @ + (IF outcome.ran THEN 1 ELSE 0)]
       IN  /\ denied_operations' = outcome.history
           /\ produced' = IF outcome.ran THEN produced \o run.artifacts ELSE produced
           /\ heap' = [heap EXCEPT ![executor.collected_artifacts] = @ \o outcome.artifacts,
                                   ![executor.execution_log] = @ \o outcome.log]
           /\ IF outcome.result.aborted
              THEN InvokeReturns(executor, frame,
                                 <<"Task execution failed:">> \o outcome.result.text_summary,
                                 FALSE)
              ELSE ReasoningLoopNext(executor, frame, inv.iteration + 1)
    /\ UNCHANGED <<hasCallback, cwdSystem, gw, ex, calls, notX>>

\* two worker threads sharing the executor (app.py:87-91): the thread that runs
\* is suspended between two steps of its invoke and the other one resumes; a
\* thread's frame holds invoke's local variables, the executor's attributes
\* belong to both
Yield ==
    /\ parked.yields < MaxYields
    /\ parked' = [inv |-> inv, produced |-> produced, yields |-> parked.yields + 1]
    /\ inv' = parked.inv
    /\ produced' = parked.produced
    /\ UNCHANGED <<executor, heap, returned, gwVars, dpVars, rtVars,
                   agVars, regVars, histVars, autoVars, wkVars, tkVars, aregVars>>

(***************************************************************************)
(* Agents (agents/base.py): BaseAgent.run around the handler's _run, and   *)
(* reject_task.  Texts are sequences of their parts.                       *)
(***************************************************************************)
\* agents: the name and the class of each
Agents ==
    { [name |-> "mock", class |-> "MockAgent"],
      [name |-> "helper", class |-> "FailingMockAgent"],
      [name |-> "GeneralAgent", class |-> "GeneralAgent"] }

Blank == " "

\* prompts as the caller writes them
RawPrompts ==
    { <<"Test task">>, <<>>, <<Blank, Blank>>, <<Blank, "Test task", Blank>> }

RECURSIVE LStrip(_)
LStrip(text) ==
    IF text # <<>> /\ Head(text) = Blank THEN LStrip(Tail(text)) ELSE text

RECURSIVE RStrip(_)
RStrip(text) ==
    IF text # <<>> /\ text[Len(text)] = Blank
    THEN RStrip(SubSeq(text, 1, Len(text) - 1))
    ELSE text

\* the Task Request: its prompt is the given text, trimmed
TaskInput(raw_prompt, conversation) ==
    [prompt |-> RStrip(LStrip(raw_prompt)), conversation |-> conversation]

Conversations ==
    { <<>>, <<[role |-> "user", content |-> "hello"]>> }

\* faults a handler's _run may raise: the exception's class and its message
Faults ==
    { [type |-> "RuntimeError", description |-> "Simulated agent failure"],
      [type |-> "KeyError", description |-> "missing key"] }

NoFault == [type |-> "none", description |-> "none"]

TaskOutput(content, success, error, error_code, conversation, metadata) ==
    [content |-> content, success |-> success, error |-> error,
     error_code |-> error_code, conversation |-> conversation,
     metadata |-> metadata]

reject_task_as_failure(agent, reason, task_input) ==
    TaskOutput(<<"I cannot handle this task:", reason>>, FALSE,
               <<"Task rejected by", agent.name, reason>>,
               "AGENT_EXECUTION_FAILED",
               task_input.conversation,
               [agent_name |-> agent.name, rejection_reason |-> reason,
                can_retry |-> TRUE])

\* reject_task (lines 144-171)
reject_task(agent, reason, task_input) ==
    TaskOutput(<<"I cannot handle this task:", reason>>, FALSE,
               <<"Task rejected by", agent.name, reason>>,
               "TASK_REJECTED_AS_INAPPROPRIATE",
               task_input.conversation,
               [agent_name |-> agent.name, rejection_reason |-> reason,
                can_retry |-> TRUE])

\* how a handler's _run ends: it returns a result, with a conversation of its
\* own or with none, it returns its own rejection of the task, or it raises
HandlerOutcomes ==
    [kind : {"return"}, success : BOOLEAN, continues : BOOLEAN,
     fault : {NoFault}, reason : {"none"}]
    \cup [kind : {"raise"}, success : {FALSE}, continues : {FALSE},
          fault : Faults, reason : {"none"}]
    \cup [kind : {"reject"}, success : {FALSE}, continues : {FALSE},
          fault : {NoFault}, reason : RejectionMessages]

\* the result a handler's _run returns
HandlerResult(agent, task_input, outcome) ==
    IF outcome.kind = "reject"
    THEN reject_task(agent, outcome.reason, task_input)
    ELSE TaskOutput(<<"Mock response to:">> \o task_input.prompt,
                    outcome.success,
                    IF outcome.success THEN <<>> ELSE <<"Tool failed">>,
                    IF outcome.success THEN "none" ELSE "TOOL_EXECUTION_FAILED",
                    IF outcome.continues
                    THEN Append(task_input.conversation,
                                [role |-> "assistant", content |-> "done"])
                    ELSE <<>>,
                    NoMetadata)

\* the test of line 90
PromptNeverMissing(prompt) == FALSE

PromptMissing(prompt) == prompt = <<>>

\* lines 102-104: a result without a conversation gets the request's
KeepHandlerConversation(result, task_input) == result

EnsureConversation(result, task_input) ==
    IF result.conversation = <<>>
    THEN [result EXCEPT !.conversation = task_input.conversation]
    ELSE result

\* the except clause of lines 109-126
FaultOutputWithoutType(agent, task_input, fault) ==
    TaskOutput(<<"I encountered an error while processing your request:",
                 fault.description>>,
               FALSE,
               <<"Error running agent", agent.name, fault.description>>,
               "AGENT_EXECUTION_FAILED",
               task_input.conversation,
               [agent_name |-> agent.name, agent_class |-> agent.class,
                error_type |-> "Exception"])

FaultOutput(agent, task_input, fault) ==
    TaskOutput(<<"I encountered an error while processing your request:",
                 fault.description>>,
               FALSE,
               <<"Error running agent", agent.name, fault.description>>,
               "AGENT_EXECUTION_FAILED",
               task_input.conversation,
               [agent_name |-> agent.name, agent_class |-> agent.class,
                error_type |-> fault.type])

\* run (lines 74-126): what it returns and whether it called _run
BaseAgent_run(agent, task_input, outcome) ==
    IF PromptMissing(task_input.prompt)
    THEN [handler_called |-> FALSE,
          result |-> TaskOutput(<<"No task prompt provided">>, FALSE,
                                <<"Empty or missing task prompt">>,
                                "INVALID_INPUT", task_input.conversation,
                                NoMetadata)]
    ELSE IF outcome.kind = "raise"
    THEN [handler_called |-> TRUE,
          result |-> FaultOutput(agent, task_input, outcome.fault)]
    ELSE [handler_called |-> TRUE,
          result |-> EnsureConversation(HandlerResult(agent, task_input, outcome),
                                        task_input)]

NoOutcome ==
    [kind |-> "none", success |-> FALSE, continues |-> FALSE,
     fault |-> NoFault, reason |-> "none"]

IdleAg ==
    [pc |-> "idle", agent |-> [name |-> "none", class |-> "none"],
     raw_prompt |-> <<>>, task_input |-> TaskInput(<<>>, <<>>),
     outcome |-> NoOutcome, handler_called |-> FALSE,
     result |-> TaskOutput(<<>>, FALSE, <<>>, "none", <<>>, NoMetadata)]

\* a caller builds a request and calls agent.run with it
AgentRun(outcome) ==
    /\ ag.pc = "ready"
    /\ LET r == BaseAgent_run(ag.agent, ag.task_input, outcome)
       IN  ag' = [ag EXCEPT !.pc = "ran", !.outcome = outcome,
                            !.handler_called = r.handler_called,
                            !.result = r.result]
    /\ UNCHANGED notAg

\* a caller calls agent.reject_task with the request
AgentRejectTask(reason) ==
    /\ ag.pc = "ready"
    /\ ag' = [ag EXCEPT !.pc = "rejected",
                        !.outcome = [NoOutcome EXCEPT !.reason = reason],
                        !.result = reject_task(ag.agent, reason, ag.task_input)]
    /\ UNCHANGED notAg

(***************************************************************************)
(* The tool registry (tools/registry.py).  A tool instance is told from    *)
(* another of the same name by its id.                                     *)
(***************************************************************************)
RegistryToolNames == {"duplicate", "test_tool", "file_reader"}

ToolInstances == [name : RegistryToolNames, id : {1, 2}]

NoInstance == [name |-> "none", id |-> 0]

EmptyTools == [n \in {} |-> NoInstance]

\* ToolExecutionError.__init__(self, message, tool_name, details=None, cause=None)
ToolExecutionErrorInit(n_positional, keywords) ==
    IF n_positional \in 2..4 /\ keywords \subseteq {"details", "cause"}
    THEN "ToolExecutionError"
    ELSE "TypeError"

\* register (lines 28-48): what it raises and the map afterwards
register_overwriting(tools, tool) ==
    [raised |-> "none",
     tools  |-> [n \in DOMAIN tools \cup {tool.name} |->
                    IF n = tool.name THEN tool ELSE tools[n]]]

register(tools, tool) ==
    IF tool.name \in DOMAIN tools
    THEN [raised |-> ToolExecutionErrorInit(2, {}), tools |-> tools]
    ELSE [raised |-> "none",
          tools  |-> [n \in DOMAIN tools \cup {tool.name} |->
                         IF n = tool.name THEN tool ELSE tools[n]]]

\* get (lines 50-70): what it raises or returns
get(tools, tool_name) ==
    IF tool_name \notin DOMAIN tools
    THEN [raised |-> ToolExecutionErrorInit(2, {}), result |-> NoInstance]
    ELSE [raised |-> "none", result |-> tools[tool_name]]

\* unregister (lines 138-154): what it returns (NoInstance for None) and the
\* map afterwards
unregister(tools, tool_name) ==
    [result |-> IF tool_name \in DOMAIN tools THEN tools[tool_name] ELSE NoInstance,
     tools  |-> [n \in DOMAIN tools \ {tool_name} |-> tools[n]]]

IdleRg ==
    [op |-> "none", name |-> "none", tool |-> NoInstance, raised |-> "none",
     result |-> NoInstance, before |-> EmptyTools, registered |-> EmptyTools]

Register(tool) ==
    /\ LET r == register(_tools, tool)
       IN  /\ _tools' = r.tools
           /\ rg' = [op |-> "register", name |-> tool.name, tool |-> tool,
                     raised |-> r.raised, result |-> NoInstance,
                     before |-> _tools,
                     registered |->
                         IF tool.name \in DOMAIN rg.registered
                         THEN rg.registered
                         ELSE [n \in DOMAIN rg.registered \cup {tool.name} |->
                                  IF n = tool.name THEN tool ELSE rg.registered[n]]]
    /\ UNCHANGED notReg

Get(tool_name) ==
    /\ LET r == get(_tools, tool_name)
       IN  rg' = [rg EXCEPT !.op = "get", !.name = tool_name, !.tool = NoInstance,
                            !.raised = r.raised, !.result = r.result,
                            !.before = _tools]
    /\ UNCHANGED <<_tools, notReg>>

Unregister(tool_name) ==
    /\ LET r == unregister(_tools, tool_name)
       IN  /\ _tools' = r.tools
           /\ rg' = [rg EXCEPT !.op = "unregister", !.name = tool_name,
                               !.tool = NoInstance, !.raised = "none",
                               !.result = r.result, !.before = _tools,
                               !.registered =
                                   [n \in DOMAIN rg.registered \ {tool_name} |->
                                       rg.registered[n]]]
    /\ UNCHANGED notReg

\* clear (lines 156-160)
Clear ==
    /\ _tools' = EmptyTools
    /\ rg' = [IdleRg EXCEPT !.op = "clear", !.before = _tools]
    /\ UNCHANGED notReg

(***************************************************************************)
(* The two bounded histories (security.py:295-320, dispatcher.py:274-301), *)
(* each with the full list of what was ever recorded beside it.            *)
(***************************************************************************)
\* histories a long-running gateway and dispatcher hold: n records, each told
\* from the others by its command, respectively its prompt
NumberedDenials(n) ==
    [i \in 1..n |->
        DenialRecord(RegistryGet("shell"), "execute", "No confirmation callback",
                     ("command" :> ToString(i)))]

NumberedDecisions(n) ==
    [i \in 1..n |->
        RoutingDecisionRecord(ToString(i), "GeneralAgent", <<"GeneralAgent">>, <<>>)]

DenialReasons == {"No confirmation callback", "User denied", "Callback error"}

NoRecords == [denials |-> <<>>, decisions |-> <<>>, count |-> 0]

RecordDenial(tool_name, reason) ==
    /\ recorded.count < MaxRecords
    /\ LET tool == RegistryGet(tool_name)
       IN  /\ denied_operations' =
                  _record_denial(denied_operations, tool, tool.risk_tier, reason, NoArgs)
           /\ recorded' =
                  [recorded EXCEPT
                      !.denials = Append(@, DenialRecord(tool, tool.risk_tier, reason, NoArgs)),
                      !.count = @ + 1]
    /\ UNCHANGED <<hasCallback, cwdSystem, gw, ex, calls, dpVars, rtVars, xVars,
                   agVars, regVars, autoVars, parkVars, wkVars, tkVars, aregVars>>

RecordRoutingDecision(prompt, selected_agent, excluded_agents) ==
    /\ recorded.count < MaxRecords
    /\ routing_history' =
           _record_routing_decision(routing_history, prompt, selected_agent,
                                    specialist_agents, excluded_agents)
    /\ recorded' =
           [recorded EXCEPT
               !.decisions = Append(@, RoutingDecisionRecord(prompt, selected_agent,
                                                             specialist_agents,
                                                             excluded_agents)),
               !.count = @ + 1]
    /\ UNCHANGED <<llm_callback, specialist_agents, route, routes, gwVars, rtVars,
                   xVars, agVars, regVars, autoVars, parkVars, wkVars, tkVars, aregVars>>

(***************************************************************************)
(* _record_denial (security.py:295-320) called by several worker threads   *)
(* on the one gateway: the append of line 316 and the trim of lines        *)
(* 319-320 are separate steps, and the threads' steps interleave.          *)
(***************************************************************************)
AppendDenial(w, reason) ==
    /\ recording[w] = "idle"
    /\ LET tool == RegistryGet("shell")
       IN  denied_operations' =
               Append(denied_operations,
                      DenialRecord(tool, tool.risk_tier, reason, NoArgs))
    /\ recording' = [recording EXCEPT ![w] = "appended"]
    /\ UNCHANGED <<hasCallback, cwdSystem, gw, ex, calls, dpVars, rtVars, xVars,
                   agVars, regVars, histVars, autoVars, parkVars, tkVars,
                   aregVars>>

TrimDenials(w) ==
    /\ recording[w] = "appended"
    /\ denied_operations' =
           IF Len(denied_operations) > DENIAL_HISTORY_LIMIT
           THEN Tail(denied_operations)
           ELSE denied_operations
    /\ recording' = [recording EXCEPT ![w] = "done"]
    /\ UNCHANGED <<hasCallback, cwdSystem, gw, ex, calls, dpVars, rtVars, xVars,
                   agVars, regVars, histVars, autoVars, parkVars, tkVars,
                   aregVars>>

(***************************************************************************)
(* Auto-opening of new artifacts: ArtifactRegistry.get_auto_open_artifacts *)
(* (core/artifact_registry.py) and HedwigApp._apply_auto_opening_rules     *)
(* (app.py).  An artifact is its position in the list it came in, which    *)
(* tells equal-typed artifacts apart, and its type.                        *)
(***************************************************************************)
ArtifactTypes == {"PDF", "CODE", "OTHER"}

Artifact(file_path, artifact_type) ==
    [file_path |-> file_path, artifact_type |-> artifact_type]

ArtifactLists ==
    UNION {{[i \in 1..n |-> Artifact(i, types[i])] : types \in [1..n -> ArtifactTypes]} :
               n \in 0..MaxArtifacts}

IsPdf(a) == a.artifact_type = "PDF"

IsCode(a) == a.artifact_type = "CODE"

\* artifact_registry.py:93: the list to open (the variant opens a PDF whenever
\* there is one)
get_auto_open_artifacts_first_pdf(new_artifacts) ==
    IF new_artifacts = <<>> THEN <<>>
    ELSE LET new_pdfs == SelectSeq(new_artifacts, IsPdf)
             new_code == SelectSeq(new_artifacts, IsCode)
         IN  IF Len(new_pdfs) >= 1 THEN <<new_pdfs[1]>>
             ELSE IF Len(new_code) >= 1 THEN <<new_code[1]>>
             ELSE <<>>

get_auto_open_artifacts(new_artifacts) ==
    IF new_artifacts = <<>> THEN <<>>
    ELSE LET new_pdfs == SelectSeq(new_artifacts, IsPdf)
             new_code == SelectSeq(new_artifacts, IsCode)
         IN  IF Len(new_pdfs) = 1 THEN <<new_pdfs[1]>>
             ELSE IF Len(new_code) >= 1 THEN <<new_code[1]>>
             ELSE <<>>

\* app.py:690: _auto_open_artifact only logs; the call is what is kept
AutoOpenCall(artifact, reason) == [artifact |-> artifact, reason |-> reason]

\* app.py:661: the _auto_open_artifact calls made, in order
_apply_auto_opening_rules(artifacts) ==
    IF artifacts = <<>> THEN <<>>
    ELSE LET pdf_artifacts == SelectSeq(artifacts, IsPdf)
         IN  IF Len(pdf_artifacts) = 1 THEN <<AutoOpenCall(pdf_artifacts[1], "PDF")>>
             ELSE LET code_artifacts == SelectSeq(artifacts, IsCode)
                  IN  IF code_artifacts # <<>>
                      THEN <<AutoOpenCall(code_artifacts[1], "code")>>
                      ELSE <<>>

IdleAuto ==
    [artifacts |-> <<>>, registry_asked |-> FALSE, to_open |-> <<>>,
     app_applied |-> FALSE, auto_opened |-> <<>>]

GetAutoOpenArtifacts ==
    /\ ~auto.registry_asked
    /\ auto' = [auto EXCEPT !.registry_asked = TRUE,
                            !.to_open = get_auto_open_artifacts(auto.artifacts)]
    /\ UNCHANGED notAuto

ApplyAutoOpeningRules ==
    /\ ~auto.app_applied
    /\ auto' = [auto EXCEPT !.app_applied = TRUE,
                            !.auto_opened = _apply_auto_opening_rules(auto.artifacts)]
    /\ UNCHANGED notAuto

(***************************************************************************)
(* The ArtifactRegistry (core/artifact_registry.py): the by-id, by-type    *)
(* and by-path indexes under register, remove_artifact and clear.          *)
(***************************************************************************)
FilePaths == {"report.pdf", "main.py", "notes.md"}

TypeOfPath(file_path) ==
    CASE file_path = "report.pdf" -> "PDF"
      [] file_path = "main.py"    -> "CODE"
      [] OTHER                    -> "OTHER"

\* artifacts with ids of their own; two of them may share a file path
StoredArtifacts ==
    {[artifact_id |-> i, file_path |-> f, artifact_type |-> TypeOfPath(f)] :
        i \in 1..MaxArtifactIds, f \in FilePaths}

NoArtifact == [artifact_id |-> 0, file_path |-> "none", artifact_type |-> "none"]

EmptyIndex == [k \in {} |-> NoArtifact]

\* d[k] = v and del d[k] on a dict
DictSet(d, k, v) == [x \in DOMAIN d \cup {k} |-> IF x = k THEN v ELSE d[x]]

DictDel(d, k) == [x \in DOMAIN d \ {k} |-> d[x]]

\* list.remove(x): the list without the first element equal to x
RECURSIVE ListRemove(_, _)
ListRemove(list, x) ==
    IF list = <<>> THEN <<>>
    ELSE IF Head(list) = x THEN Tail(list)
    ELSE <<Head(list)>> \o ListRemove(Tail(list), x)

\* __init__ (lines 25-39)
NewIndexes ==
    [_artifacts |-> EmptyIndex,
     _by_type   |-> [t \in ArtifactTypes |-> <<>>],
     _by_path   |-> EmptyIndex]

\* register (lines 41-63): what it returns and the indexes afterwards
ArtifactRegistry_register(indexes, artifact) ==
    IF artifact.artifact_id \in DOMAIN indexes._artifacts
    THEN [result |-> FALSE, raised |-> "none", indexes |-> indexes]
    ELSE [result |-> TRUE, raised |-> "none",
          indexes |->
              [_artifacts |-> DictSet(indexes._artifacts, artifact.artifact_id, artifact),
               _by_type   |-> [indexes._by_type EXCEPT
                                  ![artifact.artifact_type] = Append(@, artifact)],
               _by_path   |-> DictSet(indexes._by_path, artifact.file_path, artifact)]]

\* remove_artifact (lines 148-169): what it returns or raises and the indexes
\* afterwards; the del of line 166 raises KeyError when the path has no
\* entry, after lines 164-165 have taken effect
remove_artifact(indexes, artifact_id) ==
    IF artifact_id \notin DOMAIN indexes._artifacts
    THEN [result |-> FALSE, raised |-> "none", indexes |-> indexes]
    ELSE LET artifact == indexes._artifacts[artifact_id]
             removed  ==
                 [_artifacts |-> DictDel(indexes._artifacts, artifact_id),
                  _by_type   |-> [indexes._by_type EXCEPT
                                     ![artifact.artifact_type] = ListRemove(@, artifact)],
                  _by_path   |-> indexes._by_path]
         IN  IF artifact.file_path \notin DOMAIN indexes._by_path
             THEN [result |-> FALSE, raised |-> "KeyError", indexes |-> removed]
             ELSE [result |-> TRUE, raised |-> "none",
                   indexes |-> [removed EXCEPT
                                   !._by_path = DictDel(@, artifact.file_path)]]

\* clear (lines 171-179)
ArtifactRegistry_clear(indexes) == NewIndexes

NewArtifactRegistry ==
    [indexes |-> NewIndexes,
     last |-> [op |-> "none", artifact_id |-> 0, was_registered |-> FALSE,
               result |-> FALSE, raised |-> "none"]]

RegisterArtifact(artifact) ==
    /\ LET done == ArtifactRegistry_register(areg.indexes, artifact)
       IN  areg' = [indexes |-> done.indexes,
                    last |-> [op |-> "register", artifact_id |-> artifact.artifact_id,
                              was_registered |->
                                  artifact.artifact_id \in DOMAIN areg.indexes._artifacts,
                              result |-> done.result, raised |-> done.raised]]
    /\ UNCHANGED notAreg

RemoveArtifact(artifact_id) ==
    /\ LET done == remove_artifact(areg.indexes, artifact_id)
       IN  areg' = [indexes |-> done.indexes,
                    last |-> [op |-> "remove_artifact", artifact_id |-> artifact_id,
                              was_registered |->
                                  artifact_id \in DOMAIN areg.indexes._artifacts,
                              result |-> done.result, raised |-> done.raised]]
    /\ UNCHANGED notAreg

ClearArtifacts ==
    /\ areg' = [indexes |-> ArtifactRegistry_clear(areg.indexes),
                last |-> [op |-> "clear", artifact_id |-> 0, was_registered |-> FALSE,
                          result |-> FALSE, raised |-> "none"]]
    /\ UNCHANGED notAreg

(***************************************************************************)
(* The agent variants (agents/general.py, swe.py, research.py): _run       *)
(* around the executor's invoke, and the application's processing of the   *)
(* result (app.py, _process_execution_result).                             *)
(***************************************************************************)
AgentVariants == {"GeneralAgent", "SWEAgent", "ResearchAgent"}

\* how the call of invoke ends: with its dictionary, or raising (as the mocks
\* of the tests do)
InvokeOutcomes ==
    [raised : {FALSE}, success : BOOLEAN, artifacts : ArtifactLists]
    \cup {[raised |-> TRUE, success |-> FALSE, artifacts |-> <<>>]}

InvokeOutput(outcome) ==
    IF outcome.success THEN <<"The task is done.">>
    ELSE <<"Task execution failed:", "raise">>

\* a TaskOutput as the variants build it; one built without artifacts has the
\* empty list (test_models.py:160)
VariantOutput(content, success, error_code, artifacts, metadata) ==
    [content |-> content, success |-> success, error_code |-> error_code,
     artifacts |-> artifacts, metadata |-> metadata]

\* GeneralAgent._run (general.py:82-172)
GeneralAgent_run(outcome) ==
    IF outcome.raised
    THEN VariantOutput(<<"I'm sorry, I encountered an unexpected error:">>, FALSE,
                       "AGENT_EXECUTION_FAILED", <<>>,
                       [agent_type |-> "GeneralAgent", error_type |-> "unexpected_error"])
    ELSE IF outcome.success
    THEN VariantOutput(InvokeOutput(outcome), TRUE, "none", <<>>,
                       [agent_type |-> "GeneralAgent",
                        artifacts_generated |-> Len(outcome.artifacts),
                        artifacts |-> outcome.artifacts])
    ELSE VariantOutput(<<"I encountered an error while processing your request:">>
                           \o InvokeOutput(outcome),
                       FALSE, "AGENT_EXECUTION_FAILED", <<>>,
                       [agent_type |-> "GeneralAgent", error_type |-> "execution_failure"])

\* SWEAgent._run (swe.py:316-373) and ResearchAgent._run (research.py:336-393),
\* alike but for the name and the wording
SpecialistAgent_run(name, outcome) ==
    IF outcome.raised
    THEN VariantOutput(<<"I encountered an error">>, FALSE, "none", <<>>,
                       [agent_type |-> name, error |-> "raised"])
    ELSE VariantOutput(InvokeOutput(outcome), TRUE, "none", <<>>,
                       [agent_type |-> name, tools_used |-> <<>>])

Variant_run(agent, outcome) ==
    IF agent = "GeneralAgent" THEN GeneralAgent_run(outcome)
    ELSE SpecialistAgent_run(agent, outcome)

\* _process_execution_result (app.py:638-659) with a current thread: the
\* thread's artifacts, the artifacts_generated counter and the artifacts
\* auto-opened
_process_execution_result(result, thread_artifacts, artifacts_generated) ==
    IF ~result.success \/ result.artifacts = <<>>
    THEN [thread_artifacts |-> thread_artifacts,
          artifacts_generated |-> artifacts_generated, auto_opened |-> <<>>]
    ELSE [thread_artifacts |-> thread_artifacts \o result.artifacts,
          artifacts_generated |-> artifacts_generated + Len(result.artifacts),
          auto_opened |-> _apply_auto_opening_rules(result.artifacts)]

NoVariantOutput == VariantOutput(<<>>, FALSE, "none", <<>>, <<>>)

IdleTask ==
    [pc |-> "idle", agent |-> "none",
     outcome |-> [raised |-> FALSE, success |-> FALSE, artifacts |-> <<>>],
     output |-> NoVariantOutput, thread_artifacts |-> <<>>,
     artifacts_generated |-> 0, auto_opened |-> <<>>]

\* the agent's _run, with the outcome of its invoke call
VariantRun ==
    /\ tk.pc = "ready"
    /\ tk' = [tk EXCEPT !.pc = "ran", !.output = Variant_run(tk.agent, tk.outcome)]
    /\ UNCHANGED notTk

\* HedwigApp.run's call of _process_execution_result (app.py:187)
ProcessExecutionResult ==
    /\ tk.pc = "ran"
    /\ LET processed == _process_execution_result(tk.output, tk.thread_artifacts,
                                                  tk.artifacts_generated)
       IN  tk' = [tk EXCEPT !.pc = "processed",
                            !.thread_artifacts = processed.thread_artifacts,
                            !.artifacts_generated = processed.artifacts_generated,
                            !.auto_opened = processed.auto_opened]
    /\ UNCHANGED notTk

(***************************************************************************)
(* Initial states and specifications.  Each specification runs one         *)
(* component and holds the others in their state after construction.       *)
(***************************************************************************)
GwIdle ==
    /\ hasCallback = FALSE
    /\ cwdSystem = FALSE
    /\ denied_operations = <<>>
    /\ gw = IdleGw
    /\ ex = IdleEx
    /\ calls = 0

DpIdle ==
    /\ llm_callback = FALSE
    /\ specialist_agents = <<>>
    /\ routing_history = <<>>
    /\ route = NoRoute
    /\ routes = 0

GwInit ==
    /\ hasCallback \in BOOLEAN
    /\ cwdSystem \in BOOLEAN
    /\ denied_operations \in
         (IF hasCallback THEN {<<>>}
          ELSE {<<>>, FilledHistory(DENIAL_HISTORY_LIMIT - 1)})
    /\ gw = IdleGw
    /\ ex = IdleEx
    /\ calls = 0

GwNext ==
    \/ \E n \in CallableNames, a \in ArgMaps : ExecToolCall(n, a)
    \/ GwAssess
    \/ GwAuthorize
    \/ GwRun
    \/ ExecFinish

XIdle ==
    /\ executor = NewExecutor(FALSE, DEFAULT_MAX_ITERATIONS)
    /\ heap = NewHeap
    /\ inv = IdleInv
    /\ returned = <<>>
    /\ produced = <<>>

RegistryIdle ==
    /\ _tools = EmptyTools
    /\ rg = IdleRg

HistoryIdle ==
    /\ recorded = NoRecords

AutoIdle ==
    /\ auto = IdleAuto

\* the second worker has not called invoke yet; its call is the second on
\* the executor
ParkIdle ==
    /\ parked = [inv |-> [IdleInv EXCEPT !.invocations = 1], produced |-> <<>>,
                 yields |-> 0]

WorkersIdle ==
    /\ recording = [w \in 1..MaxWorkers |-> "idle"]

TaskIdle ==
    /\ tk = IdleTask

ArtifactsIdle ==
    /\ areg = NewArtifactRegistry

LibIdle ==
    /\ ag = IdleAg
    /\ RegistryIdle
    /\ HistoryIdle
    /\ AutoIdle
    /\ ParkIdle
    /\ WorkersIdle
    /\ TaskIdle
    /\ ArtifactsIdle

RtInit ==
    /\ rt = IdleRt
    /\ thread = <<>>
    /\ session_stats = [rejections_handled |-> 0]
    /\ attempts = <<>>

GatewayInit == GwInit /\ DpIdle /\ RtInit /\ XIdle /\ LibIdle

SpecGateway == GatewayInit /\ [][GwNext]_vars

(***************************************************************************)
(* assess_risk alone, over every tool name, declared tier and argument     *)
(* mapping of the model.                                                   *)
(***************************************************************************)
RiskInit ==
    /\ hasCallback = FALSE
    /\ cwdSystem \in BOOLEAN
    /\ denied_operations = <<>>
    /\ \E t \in AllTools, a \in ArgMaps : gw = NewGw(t, a)
    /\ ex = IdleEx
    /\ calls = 1

RiskNext == GwAssess

RiskOnlyInit == RiskInit /\ DpIdle /\ RtInit /\ XIdle /\ LibIdle

SpecRisk == RiskOnlyInit /\ [][RiskNext]_vars

DpInit ==
    /\ llm_callback \in BOOLEAN
    /\ specialist_agents = <<>>
    /\ routing_history \in
         (IF llm_callback THEN {<<>>}
          ELSE {<<>>, FilledRoutingHistory(ROUTING_HISTORY_LIMIT - 1)})
    /\ route = NoRoute
    /\ routes = 0

DpNext ==
    \/ \E n \in AgentNames : RegisterAgent(n)
    \/ \E n \in AgentNames : UnregisterAgent(n)
    \/ \E p \in Prompts, e \in ExcludedLists,
          r \in (IF llm_callback THEN RoutingReplies ELSE {<<>>}) : RouteTask(p, e, r)

RouteInit == DpInit /\ GwIdle /\ RtInit /\ XIdle /\ LibIdle

SpecRoute == RouteInit /\ [][DpNext]_vars

(***************************************************************************)
(* One call of _execute_with_retry on a new thread, for every retry bound  *)
(* of the model and every behaviour of the dispatcher and the agents.      *)
(***************************************************************************)
RtNext ==
    \/ \E n \in 0..MaxRetries : RtStart(n)
    \/ \E a \in Range(RetryAgents) \cup {"raise"} : RtRoute(a)
    \/ \E r \in AgentRuns : RtRun(r)

RetryInit == RtInit /\ GwIdle /\ DpIdle /\ XIdle /\ LibIdle

SpecRetry == RetryInit /\ [][RtNext]_vars

\* the same, with a dispatcher and agents whose calls return or raise: the
\* loop is sequential code, so its next step is always taken
SpecRetryLive == RetryInit /\ [][RtNext]_vars /\ WF_vars(RtNext)

(***************************************************************************)
(* Sequential invoke calls on one executor, with or without a reasoning    *)
(* engine, over a gateway with or without a confirmation callback, for     *)
(* every response of the model at every iteration.                         *)
(***************************************************************************)
XInit ==
    /\ \E llm \in BOOLEAN, n \in 1..MaxIterations : executor = NewExecutor(llm, n)
    /\ heap = NewHeap
    /\ inv = IdleInv
    /\ returned = <<>>
    /\ produced = <<>>
    /\ hasCallback \in BOOLEAN
    /\ cwdSystem = FALSE
    /\ denied_operations = <<>>
    /\ gw = IdleGw
    /\ ex = IdleEx
    /\ calls = 0

XNext ==
    \/ \E p \in MainPrompts : inv.invocations = 0 /\ Invoke(p)
    \/ \E r \in Responses \cup {<<"raise">>} : Reason(r)
    \/ \E run \in ToolOutputs([invoke |-> inv.invocations,
                               iteration |-> executor.current_iteration]),
          reply \in (IF hasCallback THEN CallbackReplies ELSE {"none"}) :
          ExecuteToolCall(run, reply)

ExecInit == XInit /\ DpIdle /\ RtInit /\ LibIdle

SpecExec == ExecInit /\ [][XNext]_vars

\* the same, with an engine, tools and a confirmation callback that return:
\* invoke is sequential code, so its next step is always taken
SpecExecLive == ExecInit /\ [][XNext]_vars /\ WF_vars(XNext)

(***************************************************************************)
(* Sequential invoke calls on one executor whose reasoning engine answers  *)
(* or asks for the markdown_generator tool.                                *)
(***************************************************************************)
ReuseResponses ==
    { <<"The task is done.">>, BareCallText("markdown_generator") }

ReuseNext ==
    \/ \E p \in MainPrompts : inv.invocations < MaxInvokes /\ Invoke(p)
    \/ \E r \in ReuseResponses : Reason(r)
    \/ \E run \in ToolOutputs([invoke |-> inv.invocations,
                               iteration |-> executor.current_iteration]) :
          ExecuteToolCall(run, "none")

ReuseInit == XInit /\ DpIdle /\ RtInit /\ LibIdle

SpecReuse == ReuseInit /\ [][ReuseNext]_vars

(***************************************************************************)
(* One invoke whose task input names the tools to use.                     *)
(***************************************************************************)
AllowLists == { <<"file_reader">>, <<"markdown_generator", "nonexistent">>, <<>> }

AllowResponses ==
    { <<"The task is done.">>, BareCallText("markdown_generator"),
      BareCallText("file_reader"), BareCallText("shell") }

XAllowInit ==
    /\ \E n \in 1..MaxIterations : executor = NewExecutor(TRUE, n)
    /\ heap = NewHeap
    /\ \E tools \in AllowLists : inv = [IdleInv EXCEPT !.available_tools = tools]
    /\ returned = <<>>
    /\ produced = <<>>
    /\ hasCallback = FALSE
    /\ cwdSystem = FALSE
    /\ denied_operations = <<>>
    /\ gw = IdleGw
    /\ ex = IdleEx
    /\ calls = 0

AllowNext ==
    \/ inv.pc = "idle" /\ Invoke("Test task")
    \/ \E r \in AllowResponses : Reason(r)
    \/ \E run \in ToolOutputs([invoke |-> inv.invocations,
                               iteration |-> inv.iteration]) :
          ExecuteToolCall(run, "none")

AllowInit == XAllowInit /\ DpIdle /\ RtInit /\ LibIdle

SpecAllow == AllowInit /\ [][AllowNext]_vars

(***************************************************************************)
(* Two task attempts on two worker threads, each calling invoke once on    *)
(* the one executor the application built, their steps interleaved.        *)
(***************************************************************************)
SharedNext ==
    \/ inv.pc = "idle" /\ Invoke("Test task")
    \/ \E r \in ReuseResponses : Reason(r)
    \/ \E run \in ToolOutputs([invoke |-> inv.invocations,
                               iteration |-> inv.iteration]) :
          ExecuteToolCall(run, "none")
    \/ Yield

XSharedInit ==
    /\ \E n \in 1..MaxIterations : executor = NewExecutor(TRUE, n)
    /\ heap = NewHeap
    /\ inv = IdleInv
    /\ returned = <<>>
    /\ produced = <<>>
    /\ hasCallback = FALSE
    /\ cwdSystem = FALSE
    /\ denied_operations = <<>>
    /\ gw = IdleGw
    /\ ex = IdleEx
    /\ calls = 0

SharedInit == XSharedInit /\ DpIdle /\ RtInit /\ LibIdle

SpecShared == SharedInit /\ [][SharedNext]_vars

(***************************************************************************)
(* One agent, one request, and a call of run with every way its handler    *)
(* may end, or a call of reject_task.                                      *)
(***************************************************************************)
AgInit ==
    \E a \in Agents, p \in RawPrompts, c \in Conversations :
        ag = [IdleAg EXCEPT !.pc = "ready", !.agent = a, !.raw_prompt = p,
                            !.task_input = TaskInput(p, c)]

AgNext ==
    \/ \E o \in HandlerOutcomes : AgentRun(o)
    \/ \E m \in RejectionMessages : AgentRejectTask(m)

AgentInit == AgInit /\ RegistryIdle /\ HistoryIdle /\ AutoIdle /\ ParkIdle /\ WorkersIdle /\ TaskIdle /\ ArtifactsIdle /\ GwIdle /\ DpIdle /\ RtInit /\ XIdle

SpecAgent == AgentInit /\ [][AgNext]_vars

(***************************************************************************)
(* Any sequence of calls on one tool registry.                             *)
(***************************************************************************)
RegistryNext ==
    \/ \E tool \in ToolInstances : Register(tool)
    \/ \E n \in RegistryToolNames : Get(n)
    \/ \E n \in RegistryToolNames : Unregister(n)
    \/ Clear

RegistryInit == RegistryIdle /\ ag = IdleAg /\ HistoryIdle /\ AutoIdle /\ ParkIdle /\ WorkersIdle /\ TaskIdle /\ ArtifactsIdle /\ GwIdle /\ DpIdle /\ RtInit /\ XIdle

SpecRegistry == RegistryInit /\ [][RegistryNext]_vars

(***************************************************************************)
(* Denials and routing decisions recorded, in any order, on a gateway and  *)
(* a dispatcher whose histories are empty, nearly full or full.            *)
(***************************************************************************)
HistoryLengths(limit) == {0, limit - 1, limit}

HistInit ==
    /\ \E n \in HistoryLengths(DENIAL_HISTORY_LIMIT),
          m \in HistoryLengths(ROUTING_HISTORY_LIMIT) :
          /\ denied_operations = NumberedDenials(n)
          /\ routing_history = NumberedDecisions(m)
          /\ recorded = [denials |-> NumberedDenials(n),
                         decisions |-> NumberedDecisions(m), count |-> 0]
    /\ hasCallback = FALSE
    /\ cwdSystem = FALSE
    /\ gw = IdleGw
    /\ ex = IdleEx
    /\ calls = 0
    /\ llm_callback = FALSE
    /\ specialist_agents = RetryAgents
    /\ route = NoRoute
    /\ routes = 0

HistoryNext ==
    \/ \E r \in DenialReasons : RecordDenial("shell", r)
    \/ \E a \in {"GeneralAgent", "SWEAgent"}, e \in {<<>>, <<"ResearchAgent">>} :
          RecordRoutingDecision("fix the bug", a, e)

HistoryInit == HistInit /\ ag = IdleAg /\ RegistryIdle /\ AutoIdle /\ ParkIdle /\ WorkersIdle /\ TaskIdle /\ ArtifactsIdle /\ RtInit /\ XIdle

SpecHistory == HistoryInit /\ [][HistoryNext]_vars

(***************************************************************************)
(* Worker threads recording one denial each on a gateway whose history is  *)
(* empty, nearly full or full.                                             *)
(***************************************************************************)
DenialsInit ==
    /\ \E n \in HistoryLengths(DENIAL_HISTORY_LIMIT) :
          denied_operations = NumberedDenials(n)
    /\ hasCallback = FALSE
    /\ cwdSystem = FALSE
    /\ gw = IdleGw
    /\ ex = IdleEx
    /\ calls = 0
    /\ recording = [w \in 1..MaxWorkers |-> "idle"]

DenialsNext ==
    \/ \E w \in 1..MaxWorkers, r \in DenialReasons : AppendDenial(w, r)
    \/ \E w \in 1..MaxWorkers : TrimDenials(w)

WorkersInit ==
    DenialsInit /\ ag = IdleAg /\ RegistryIdle /\ HistoryIdle /\ AutoIdle /\ ParkIdle
        /\ TaskIdle /\ ArtifactsIdle
        /\ DpIdle /\ RtInit /\ XIdle

SpecWorkers == WorkersInit /\ [][DenialsNext]_vars

(***************************************************************************)
(* One task run by each agent variant, for every outcome of invoke.        *)
(***************************************************************************)
\* a task about to be run by an agent, or a result handed to the processing
\* directly with artifacts of its own (test_app.py:281-317)
TkInit ==
    \/ \E a \in AgentVariants, o \in InvokeOutcomes :
          tk = [IdleTask EXCEPT !.pc = "ready", !.agent = a, !.outcome = o]
    \/ \E artifacts \in ArtifactLists :
          tk = [IdleTask EXCEPT
                   !.pc = "ran",
                   !.output = VariantOutput(<<"Generated files successfully">>, TRUE,
                                            "none", artifacts, <<>>)]

TkNext ==
    \/ VariantRun
    \/ ProcessExecutionResult

TaskInit ==
    TkInit /\ ag = IdleAg /\ RegistryIdle /\ HistoryIdle /\ AutoIdle /\ ParkIdle
        /\ WorkersIdle /\ ArtifactsIdle /\ GwIdle /\ DpIdle /\ RtInit /\ XIdle

SpecTask == TaskInit /\ [][TkNext]_vars

(***************************************************************************)
(* Any sequence of calls on one ArtifactRegistry.                          *)
(***************************************************************************)
ArtifactsNext ==
    \/ \E artifact \in StoredArtifacts : RegisterArtifact(artifact)
    \/ \E i \in 1..MaxArtifactIds : RemoveArtifact(i)
    \/ ClearArtifacts

ArtifactsInit ==
    ArtifactsIdle /\ ag = IdleAg /\ RegistryIdle /\ HistoryIdle /\ AutoIdle /\ ParkIdle
        /\ WorkersIdle /\ TaskIdle /\ GwIdle /\ DpIdle /\ RtInit /\ XIdle

SpecArtifacts == ArtifactsInit /\ [][ArtifactsNext]_vars

(***************************************************************************)
(* Both auto-open rules applied, in either order, to one list of new       *)
(* artifacts.                                                              *)
(***************************************************************************)
AutoInit ==
    \E artifacts \in ArtifactLists : auto = [IdleAuto EXCEPT !.artifacts = artifacts]

AutoNext ==
    \/ GetAutoOpenArtifacts
    \/ ApplyAutoOpeningRules

AutoOpenInit ==
    AutoInit /\ ag = IdleAg /\ RegistryIdle /\ HistoryIdle /\ ParkIdle /\ WorkersIdle /\ TaskIdle /\ ArtifactsIdle /\ GwIdle /\ DpIdle /\ RtInit /\ XIdle

SpecAutoOpen == AutoOpenInit /\ [][AutoNext]_vars

(***************************************************************************)
(* Claims about the Security Gateway.                                      *)
(***************************************************************************)
HighTiers == {"execute", "destructive"}

\* the cause the gateway records for a denial
DenialCause(cb, reply) ==
    IF ~cb THEN "No confirmation callback"
    ELSE IF reply = "deny" THEN "User denied" ELSE "Callback error"

\* C1: a tool has run only if the gateway assessed the risk of that call and its
\* authorization check, on that assessed tier, returned allow; a call that was
\* denied or whose authorization raised never runs, and the executor holds a
\* tool's result only for a call that ran through the gateway.
C1_RunOnlyAfterAllow ==
    /\ gw.ran =>
         /\ gw.risk = assess_risk(gw.tool, gw.args, cwdSystem)
         /\ gw.auth = "allow"
         /\ check_authorization(gw.tool, gw.risk, gw.args, hasCallback, gw.reply, <<>>).result
              = "allow"
         /\ gw.raised = "none"
    /\ gw.pc = "run" => gw.auth = "allow" /\ gw.risk \in RiskTiers
    /\ gw.auth \in {"deny", "fault"} => ~gw.ran /\ gw.pc = "raised"
    /\ ex.result \in {"ok", "failed"} => gw.ran /\ gw.tool.name = ex.tool_name
    /\ ex.result = "not_found" => ~gw.ran

C1_Witness ==
    /\ gw.ran /\ gw.auth = "allow" /\ gw.risk = "write"
    /\ ex.pc = "done" /\ ex.result = "ok"

\* C2: on a gateway with no confirmation callback, an authorization on effective
\* tier EXECUTE or DESTRUCTIVE returns deny and one on READ_ONLY or WRITE returns
\* allow, whatever the tool and its arguments.
C2_FailClosed ==
    (~hasCallback /\ gw.pc \in {"run", "returned", "raised"}) =>
        /\ gw.risk \in HighTiers => gw.auth = "deny" /\ ~gw.ran
        /\ gw.risk \in {"read_only", "write"} => gw.auth = "allow"

C2_Witness ==
    ~hasCallback /\ gw.auth = "deny" /\ gw.risk = "destructive" /\ gw.tool.risk_tier = "execute"

\* C3: the tier assess_risk returns is never below the tool's declared static
\* tier in the order READ_ONLY < WRITE < EXECUTE < DESTRUCTIVE.
C3_MonotonicEscalation ==
    gw.risk # "none" =>
        /\ gw.risk \in RiskTiers
        /\ HierarchyIndex(gw.risk) >= HierarchyIndex(gw.tool.risk_tier)

\* an argument signal below the declared tier leaves the declared tier in place
C3_Witness ==
    /\ gw.pc = "authorize"
    /\ gw.tool.risk_tier = "destructive"
    /\ _analyze_arguments(gw.tool, gw.args, cwdSystem) = "execute"
    /\ gw.risk = "destructive"

\* C4: execute_tool signals a failed authorization as SecurityGatewayDenial: with
\* no confirmation callback, executing "echo" (READ_ONLY) returns the tool's
\* result and executing "shell" (EXECUTE) raises SecurityGatewayError and no other
\* kind of fault.
C4_DenialRaisesSecurityGatewayError ==
    ~hasCallback =>
        /\ (gw.tool.name = "echo" /\ gw.pc \in {"returned", "raised"}) =>
              gw.pc = "returned" /\ gw.ran
        /\ (gw.tool.name = "shell" /\ gw.pc \in {"returned", "raised"}) =>
              gw.pc = "raised" /\ gw.raised = "SecurityGatewayError"

\* C5: with a confirmation callback configured, an authorization on tier EXECUTE
\* or DESTRUCTIVE invokes the callback once and allows the call exactly when the
\* callback approves (its denial or failure gives deny); on READ_ONLY and WRITE
\* the callback is not invoked.
C5_CallbackDecides ==
    (hasCallback /\ gw.pc \in {"run", "returned", "raised"}) =>
        IF gw.risk \in HighTiers
        THEN /\ gw.cb_calls = 1
             /\ gw.auth = "allow" <=> gw.reply = "approve"
             /\ gw.reply \in {"deny", "raise"} => gw.auth = "deny"
        ELSE gw.cb_calls = 0 /\ gw.auth = "allow"

\* C6: an authorization that returns deny has appended exactly one Denial record
\* to the history it started from (the oldest record dropped beyond the limit of
\* 100), carrying the call's tool name, tier, arguments and the cause of the
\* denial; one that returns allow leaves the history as it was.
C6_DenialRecorded ==
    /\ gw.auth = "deny" =>
         LET record == DenialRecord(gw.tool, gw.risk, DenialCause(hasCallback, gw.reply), gw.args)
             appended == Append(gw.history_before, record)
         IN  /\ denied_operations =
                   IF Len(appended) > DENIAL_HISTORY_LIMIT THEN Tail(appended) ELSE appended
             /\ denied_operations[Len(denied_operations)] = record
    /\ gw.auth = "allow" => denied_operations = gw.history_before

\* a denial recorded on top of an earlier one
C6_Witness ==
    /\ gw.auth = "deny"
    /\ Len(denied_operations) = 2
    /\ denied_operations[2].tool_name = "bash"
    /\ denied_operations[2].risk_tier = "destructive"
    /\ denied_operations[2].reason = "No confirmation callback"


(***************************************************************************)
(* Claims about the Dispatcher.                                            *)
(***************************************************************************)

\* C10: whenever route_task returns a name, that name is a registered agent and
\* is not in the exclusion list of the call, whatever the routing callback
\* replied and whichever branch of the heuristic was taken.
C10_ReturnedAgentAvailable ==
    route.kind = "returned" =>
        /\ route.name \in Range(specialist_agents)
        /\ route.name \notin Range(route.excluded)

\* a returned route whose first selection (a reply naming no agent, or an
\* excluded agent) was replaced by the first available agent
C10_Witness ==
    /\ route.kind = "returned"
    /\ route.excluded # <<>>
    /\ _make_routing_decision(route.prompt, specialist_agents, llm_callback, route.reply)
          \notin Range(AvailableAgents(specialist_agents, route.excluded))
    /\ route.name = Head(AvailableAgents(specialist_agents, route.excluded))


\* C11: a route_task call made when no agent is registered, or when the
\* exclusion list names every registered agent, raises; the exception is of the
\* same kind, AgentExecutionError, in both cases; and a call that raises leaves
\* the routing history as it found it.
C11_NoAgentsAvailable ==
    route.kind # "none" =>
        /\ (specialist_agents = <<>>
              \/ Range(specialist_agents) \subseteq Range(route.excluded)) =>
               /\ route.kind = "raised"
               /\ route.name = "AgentExecutionError"
        /\ route.kind = "raised" => routing_history = route.history_before

\* every registered agent excluded, on a dispatcher that holds earlier decisions
C11_Witness ==
    /\ route.kind = "raised"
    /\ Len(specialist_agents) >= 2
    /\ Range(specialist_agents) \subseteq Range(route.excluded)
    /\ Len(routing_history) = ROUTING_HISTORY_LIMIT - 1

\* the chain of the keyword rules taken over the agents that are not excluded:
\* the code specialist, else the research specialist, else the general-purpose
\* agent, else the first available agent in registration order
HeuristicChain(prompt, available) ==
    IF HasCodeKeyword(prompt) /\ "SWEAgent" \in Range(available)
    THEN "SWEAgent"
    ELSE IF HasResearchKeyword(prompt) /\ "ResearchAgent" \in Range(available)
    THEN "ResearchAgent"
    ELSE IF "GeneralAgent" \in Range(available)
    THEN "GeneralAgent"
    ELSE Head(available)

\* C12: on a dispatcher with no routing callback, the agent route_task returns
\* is the one the chain of keyword rules selects, an excluded agent being passed
\* over for the next rule of the chain.
C12_HeuristicFallsThrough ==
    (~llm_callback /\ route.kind = "returned") =>
        route.name = HeuristicChain(route.prompt,
                                    AvailableAgents(specialist_agents, route.excluded))

\* C13: on a dispatcher with a routing callback whose cleaned reply names no
\* available agent, the agent route_task returns is the one the keyword
\* heuristic selects for the prompt (taken over the registry, or over the
\* agents that are not excluded).
C13_UnknownReplyFallsBackToHeuristic ==
    (/\ llm_callback
     /\ route.kind = "returned"
     /\ route.reply # <<"raise">>
     /\ CleanedName(route.reply)
           \notin Range(AvailableAgents(specialist_agents, route.excluded))) =>
        route.name \in
            {_heuristic_routing(route.prompt, specialist_agents),
             HeuristicChain(route.prompt,
                            AvailableAgents(specialist_agents, route.excluded))}

(***************************************************************************)
(* Claims about the Agent Executor.                                        *)
(***************************************************************************)
\* the result the last invoke returned, its lists read through the heap
LastResult ==
    LET r == returned[Len(returned)]
    IN  [r EXCEPT !.artifacts = heap[r.artifacts],
                  !.execution_log = heap[r.execution_log]]

\* the responses the engine gave during the call, as the log recorded them
LoggedResponses ==
    SelectSeq(heap[executor.execution_log], LAMBDA e : e.step_type = "llm_response")

HasMarker(text) == \E i \in 1..Len(text) : text[i] = Marker

\* the responses that hold a call of a tool the registry lacks
MissingToolCalls ==
    { <<"I need a tool.">> \o BareCallText("nonexistent") \o <<"Then I go on.">>,
      WireText("nonexistent", <<>>) }

\* an invoke with an engine and a prompt has returned, and each of its
\* reasoning calls answered with a call of a missing tool
OnlyMissingToolCalls ==
    /\ inv.pc = "done"
    /\ executor.llm_callback
    /\ inv.main_prompt # ""
    /\ Len(LoggedResponses) = inv.llm_calls
    /\ \A k \in 1..Len(LoggedResponses) : LoggedResponses[k].data \in MissingToolCalls

\* C14: when every response of the engine is a call of a tool that is not in
\* the registry, invoke makes max_iterations reasoning calls, never calls the
\* gateway and returns the partial-completion message, successful, with
\* iterations = max_iterations.  Violated: a call in the wire format, with its
\* arguments object, is not parsed (C17), and invoke returns after one call.
C14_MissingToolRunsToCap ==
    OnlyMissingToolCalls =>
        /\ inv.llm_calls = executor.max_iterations
        /\ inv.gateway_calls = 0
        /\ LastResult.output = PartialCompletion(executor.max_iterations)
        /\ LastResult.success
        /\ LastResult.iterations = executor.max_iterations

\* C15: an executor without a reasoning engine returns, for a non-empty prompt,
\* the placeholder response, successful, after one iteration, with no artifact
\* and no tool executed.
C15_PlaceholderWithoutEngine ==
    (inv.pc = "done" /\ ~executor.llm_callback /\ inv.main_prompt # "") =>
        /\ LastResult.output =
               <<"Mock response: Task would be executed with available tools. No LLM callback configured.">>
        /\ LastResult.success
        /\ LastResult.iterations = 1
        /\ LastResult.artifacts = <<>>
        /\ inv.llm_calls = 0 /\ inv.gateway_calls = 0 /\ inv.tool_runs = 0

C15_Witness ==
    /\ inv.pc = "done" /\ ~executor.llm_callback /\ inv.main_prompt # ""
    /\ executor.max_iterations > 1
    /\ LastResult.iterations = 1

WireCalls ==
    { [tool_name |-> "file_reader", arguments |-> ("file_path" :> "notes.txt")],
      [tool_name |-> "markdown_generator", arguments |-> <<>>],
      [tool_name |-> "nonexistent", arguments |-> <<>>] }

\* C17: a response that holds the marker and a JSON object with a tool_name
\* string and an arguments object parses to a call of that tool with those
\* arguments.  Violated: the pattern's group ends at the first closing brace,
\* the one of the arguments object, and what it holds is no JSON object.
C17_WireFormatParsed ==
    \A c \in WireCalls :
        (/\ inv.llm_calls > 0
         /\ inv.llm_response \in
                { WireText(c.tool_name, c.arguments),
                  <<"I need a tool.">> \o WireText(c.tool_name, c.arguments) }) =>
            /\ _extract_tool_call(inv.llm_response).found
            /\ _extract_tool_call(inv.llm_response).tool_name = c.tool_name
            /\ _extract_tool_call(inv.llm_response).arguments = c.arguments

\* responses whose marker is followed by what is no JSON, or by a JSON object
\* without a tool_name
MalformedCalls ==
    { <<Marker, "{", "not json", "}">>, <<Marker, "{", "name", "shell", "}">> }

\* C18: a response whose marker is followed by malformed JSON or by JSON
\* without a tool_name parses to no call; the loop never takes it to the tool
\* step and ends at that iteration, successfully, with the response as output.
C18_MalformedCallIsFinalAnswer ==
    /\ \A r \in MalformedCalls : _extract_tool_call(r) = NoCall
    /\ (inv.pc = "tool") => inv.llm_response \notin MalformedCalls
    /\ (inv.pc = "done" /\ inv.llm_calls > 0 /\ inv.llm_response \in MalformedCalls) =>
           /\ LastResult.output = inv.llm_response
           /\ LastResult.success
           /\ LastResult.iterations = inv.llm_calls
           /\ \A k \in 1..Len(LastResult.execution_log) :
                  LastResult.execution_log[k].iteration = inv.llm_calls =>
                      LastResult.execution_log[k].step_type = "llm_response"

C18_Witness ==
    /\ inv.pc = "done" /\ inv.llm_calls > 1
    /\ inv.llm_response \in MalformedCalls
    /\ LastResult.output = inv.llm_response

\* the text a captured gateway error leaves in the next prompt
ErrorFolded(prompt) ==
    /\ Len(prompt) >= 3
    /\ prompt[Len(prompt) - 2] = "Error executing"
    /\ prompt[Len(prompt) - 1] = inv.tool_call.tool_name

\* the only invokes that fail are those without a prompt and those whose
\* reasoning engine raised
FailsOnlyWithoutPromptOrEngine ==
    (inv.pc = "done" /\ ~LastResult.success) =>
        \/ inv.main_prompt = ""
        \/ inv.llm_response = <<"raise">>

\* a step in which the gateway was called and the tool did not run folds the
\* error into the prompt, logs it, and goes on to the next reasoning call or
\* ends at the cap with the partial-completion message
DenialGoesOn ==
    (/\ inv.pc = "tool"
     /\ inv'.gateway_calls = inv.gateway_calls + 1
     /\ inv'.tool_runs = inv.tool_runs) =>
        /\ ErrorFolded(inv'.current_prompt)
        /\ heap'[executor.execution_log][Len(heap'[executor.execution_log])].step_type
               = "tool_execution_error"
        /\ \/ /\ inv'.pc = "reason"
              /\ inv'.iteration = inv.iteration + 1
              /\ returned' = returned
           \/ /\ inv'.pc = "done"
              /\ inv.iteration + 1 = executor.max_iterations
              /\ returned'[Len(returned')].success
              /\ returned'[Len(returned')].output =
                     PartialCompletion(executor.max_iterations)

\* C19: a gateway denial, or a fault raised while a tool call is executed,
\* never aborts invoke: it becomes a failed tool result whose text is in the
\* next prompt, and the loop goes on to its next reasoning call or to the cap.
C19_ToolFailureNeverAborts ==
    /\ []FailsOnlyWithoutPromptOrEngine
    /\ [][DenialGoesOn]_vars

C19_Witness ==
    /\ inv.pc = "reason" /\ inv.iteration > 0
    /\ ErrorFolded(inv.current_prompt)
    /\ inv.gateway_calls > 0 /\ inv.tool_runs = 0

\* the results returned so far, their lists read through the heap
ObservedResults ==
    [i \in 1..Len(returned) |->
        [returned[i] EXCEPT !.artifacts = heap[returned[i].artifacts],
                            !.execution_log = heap[returned[i].execution_log]]]

StartsFromReset ==
    (inv.pc = "reason" /\ inv.iteration = 0) =>
        /\ executor.current_iteration = 0
        /\ heap[executor.collected_artifacts] = <<>>
        /\ heap[executor.execution_log] = <<>>

ReturnsOwnArtifacts ==
    (inv.pc = "done") => LastResult.artifacts = produced

EarlierResultsKept ==
    \A i \in 1..Len(returned) : ObservedResults'[i] = ObservedResults[i]

\* C20: every invoke starts from iteration counter 0, an empty artifact list
\* and an empty log; the artifacts it returns are those its own tool
\* executions produced, in order; and no step changes a result an earlier call
\* returned.
C20_InvokeStartsFresh ==
    /\ [](StartsFromReset /\ ReturnsOwnArtifacts)
    /\ [][EarlierResultsKept]_vars

C20_Witness ==
    /\ Len(returned) = 2 /\ inv.pc = "done"
    /\ ObservedResults[1].artifacts # <<>>
    /\ ObservedResults[2].artifacts # <<>>
    /\ ObservedResults[2].artifacts = produced
    /\ ObservedResults[1].artifacts # ObservedResults[2].artifacts

(***************************************************************************)
(* Claims about the retry loop.                                            *)
(***************************************************************************)
AllRejected == \A i \in 1..Len(attempts) : attempts[i].outcome = "rejected"

\* C7: for a retry bound N >= 1, when every attempt was routed and its agent
\* returned a TaskRejected result, the loop has ended only after exactly N
\* route-and-run attempts, and its result is a failure with the
\* AGENT_EXECUTION_FAILED kind whose metadata reports N attempts, the agents of
\* the N rejections in order and the message of the last rejection.
C7_ExhaustedAfterNRejections ==
    (rt.pc = "done" /\ rt.max_retries >= 1 /\ AllRejected) =>
        /\ Len(attempts) = rt.max_retries
        /\ ~rt.result.success
        /\ rt.result.error_code = "AGENT_EXECUTION_FAILED"
        /\ "attempts" \in DOMAIN rt.result.metadata
        /\ rt.result.metadata.attempts = rt.max_retries
        /\ rt.result.metadata.rejected_agents =
               [i \in 1..rt.max_retries |-> attempts[i].agent]
        /\ rt.result.metadata.last_error = attempts[rt.max_retries].result.error
        /\ session_stats.rejections_handled = rt.max_retries

\* three rejections under the default bound, the last with a message of its own
C7_Witness ==
    /\ rt.pc = "done"
    /\ rt.max_retries = 3
    /\ AllRejected
    /\ Len(attempts) = 3
    /\ attempts[3].result.error # attempts[2].result.error
    /\ rt.result.metadata.last_error = <<"Out of scope">>

\* C8: a rejecting agent joins the exclusion set of the task, and no later
\* attempt of the task is routed to, or run by, an agent that is already in the
\* exclusion set.
C8_ExcludedAgentNeverRoutedAgain ==
    \A i \in 1..Len(attempts) :
        /\ (i < Len(attempts) /\ attempts[i].outcome = "rejected") =>
               attempts[i + 1].rejected_before =
                   Append(attempts[i].rejected_before, attempts[i].agent)
        /\ attempts[i].agent \notin Range(attempts[i].rejected_before)

\* C9: an attempt whose agent returned a success, or a failure that is not a
\* TaskRejected, is the last attempt: the loop has ended and that result is the
\* result returned; every earlier attempt ended in a rejection or a raised fault.
C9_RetryOnlyOnRejection ==
    \A i \in 1..Len(attempts) :
        /\ attempts[i].outcome \in {"success", "failed"} =>
               /\ i = Len(attempts)
               /\ rt.pc = "done"
               /\ rt.result = attempts[i].result
        /\ i < Len(attempts) =>
               attempts[i].outcome \in {"rejected", "route raised", "run raised"}

\* the first agent rejects and the second succeeds: two runs, the second
\* result returned
C9_Witness ==
    /\ rt.pc = "done"
    /\ Len(attempts) = 2
    /\ attempts[1].outcome = "rejected"
    /\ attempts[2].outcome = "success"
    /\ rt.result = SuccessResult
    /\ rt.max_retries = 3

(***************************************************************************)
(* Claims about agents.                                                    *)
(***************************************************************************)
\* run was called with a prompt, and the handler's _run raised
HandlerRaised ==
    ag.pc = "ran" /\ ag.handler_called /\ ag.outcome.kind = "raise"

\* C21, as stated: when the handler's _run raises, run returns a failed result
\* of kind AGENT_EXECUTION_FAILED with the request's conversation, whose
\* metadata holds the agent's name, its class and the fault's description.
C21_FaultDescriptionInMetadata ==
    HandlerRaised =>
        /\ ~ag.result.success
        /\ ag.result.error_code = "AGENT_EXECUTION_FAILED"
        /\ ag.result.conversation = ag.task_input.conversation
        /\ \E k \in DOMAIN ag.result.metadata :
               ag.result.metadata[k] = ag.agent.name
        /\ \E k \in DOMAIN ag.result.metadata :
               ag.result.metadata[k] = ag.agent.class
        /\ \E k \in DOMAIN ag.result.metadata :
               ag.result.metadata[k] = ag.outcome.fault.description

\* C21, amended: the metadata holds the agent's name, its class and the
\* fault's type name; the fault's description is in the result's error text
\* and content.
C21_FaultBecomesFailedResult ==
    HandlerRaised =>
        /\ ~ag.result.success
        /\ ag.result.error_code = "AGENT_EXECUTION_FAILED"
        /\ ag.result.conversation = ag.task_input.conversation
        /\ ag.result.metadata.agent_name = ag.agent.name
        /\ ag.result.metadata.agent_class = ag.agent.class
        /\ ag.result.metadata.error_type = ag.outcome.fault.type
        /\ ag.outcome.fault.description \in Range(ag.result.error)
        /\ ag.outcome.fault.description \in Range(ag.result.content)

C21_Witness ==
    /\ HandlerRaised
    /\ ag.task_input.conversation # <<>>
    /\ ag.result.metadata.error_type = "RuntimeError"

C23_ConversationPopulated ==
    (ag.pc = "ran") =>
        ag.result.conversation =
            IF ag.handler_called /\ ag.outcome.kind = "return" /\ ag.outcome.continues
            THEN Append(ag.task_input.conversation,
                        [role |-> "assistant", content |-> "done"])
            ELSE ag.task_input.conversation

C23_Witness ==
    /\ ag.pc = "ran" /\ ag.handler_called
    /\ ag.outcome.kind = "return" /\ ag.outcome.success /\ ~ag.outcome.continues
    /\ ag.task_input.conversation # <<>>
    /\ ag.result.conversation = ag.task_input.conversation

\* C24: reject_task returns a failed result of kind
\* TASK_REJECTED_AS_INAPPROPRIATE, with can_retry set in its metadata, the
\* agent's name and the reason in its error text, the reason in its content
\* and the request's conversation: a result the retry loop takes for a
\* rejection.
C24_RejectTaskShape ==
    (ag.pc = "rejected") =>
        /\ ~ag.result.success
        /\ ag.result.error_code = "TASK_REJECTED_AS_INAPPROPRIATE"
        /\ ag.result.metadata.can_retry
        /\ ag.agent.name \in Range(ag.result.error)
        /\ ag.outcome.reason \in Range(ag.result.error)
        /\ ag.outcome.reason \in Range(ag.result.content)
        /\ ag.result.conversation = ag.task_input.conversation
        /\ IsRejection(ag.result)

C24_Witness ==
    /\ ag.pc = "rejected"
    /\ ag.task_input.conversation # <<>>
    /\ IsRejection(ag.result)

(***************************************************************************)
(* Claims about the tool registry.                                         *)
(***************************************************************************)
\* C25: get(name) returns the very instance that was registered under the
\* name; registering a tool under a name that is taken raises
\* ToolExecutionError and leaves the map, and so the instance under the name,
\* as it was.
C25_RegistryIdentity ==
    /\ (rg.op = "get" /\ rg.name \in DOMAIN rg.registered) =>
           /\ rg.raised = "none"
           /\ rg.result = rg.registered[rg.name]
    /\ (rg.op = "register" /\ rg.name \in DOMAIN rg.before) =>
           /\ rg.raised = "ToolExecutionError"
           /\ _tools = rg.before
           /\ get(_tools, rg.name).result = rg.before[rg.name]
    /\ DOMAIN _tools = DOMAIN rg.registered

\* a second instance offered under a name that is taken
C25_Witness ==
    /\ rg.op = "register" /\ rg.name \in DOMAIN rg.before
    /\ rg.tool # rg.before[rg.name]
    /\ rg.raised = "ToolExecutionError"
    /\ _tools[rg.name] = rg.before[rg.name]

(***************************************************************************)
(* Claims about the bounded histories.                                     *)
(***************************************************************************)
\* the last n elements of a sequence, or all of it when it has fewer
LastOf(seq, n) ==
    IF Len(seq) <= n THEN seq ELSE SubSeq(seq, Len(seq) - n + 1, Len(seq))

\* C26: after any sequence of recordings the denial history and the routing
\* history hold at most 100 records each, and they are the last recorded ones,
\* in the order of recording.
C26_HistoriesKeepLatest ==
    /\ Len(denied_operations) <= 100
    /\ Len(routing_history) <= 100
    /\ denied_operations = LastOf(recorded.denials, 100)
    /\ routing_history = LastOf(recorded.decisions, 100)

\* both histories overflowed, the denial history more than once
C26_Witness ==
    /\ Len(recorded.denials) >= 102
    /\ Len(recorded.decisions) >= 101
    /\ Len(denied_operations) = 100
    /\ Len(routing_history) = 100
    /\ denied_operations[100] = recorded.denials[Len(recorded.denials)]

\* C27: a route_task call that returns an agent has appended one decision to
\* the history, which records the agent returned, the agents that were
\* available (the registered ones without the excluded), the excluded agents
\* and the attempt number Len(excluded) + 1.  Violated: the record's
\* available_agents are all the registered agents.
C27_DecisionRecorded ==
    (route.kind = "returned") =>
        LET decision == routing_history[Len(routing_history)]
        IN  /\ routing_history =
                   LastOf(Append(route.history_before, decision), ROUTING_HISTORY_LIMIT)
            /\ decision.selected_agent = route.name
            /\ decision.excluded_agents = route.excluded
            /\ decision.routing_attempt = Len(route.excluded) + 1
            /\ decision.available_agents =
                   AvailableAgents(specialist_agents, route.excluded)

(***************************************************************************)
(* Claims about the risk assessment.                                       *)
(***************************************************************************)
\* the tiers of the signals the arguments match, each taken by itself
MatchedSignalTiers(tool, args, cwdSys) ==
    (IF /\ NameContains(tool.name, "bash")
        /\ "command" \in DOMAIN args
        /\ MatchesHighRiskPattern(args["command"])
     THEN {"destructive"} ELSE {})
    \cup (IF /\ NameContains(tool.name, "file")
             /\ \E n \in DOMAIN args :
                    ArgNameHasPath(n) /\ _is_system_path(args[n], cwdSys)
          THEN {"execute"} ELSE {})
    \cup (IF NameContains(tool.name, "python") /\ NameContains(tool.name, "execute")
          THEN {"execute"} ELSE {})

\* the highest of a set of tiers
HighestTier(tiers) ==
    CHOOSE t \in tiers : \A u \in tiers : HierarchyIndex(t) >= HierarchyIndex(u)

\* C28: the tier assess_risk returns is the highest of the tool's static tier
\* and the tiers of all the signals its arguments match, whichever of them is
\* looked at first.
C28_HighestOfStaticAndSignals ==
    gw.risk # "none" =>
        gw.risk = HighestTier({gw.tool.risk_tier}
                              \cup MatchedSignalTiers(gw.tool, gw.args, cwdSystem))

\* two signals of different tiers match, both above the static tier
C28_Witness ==
    /\ gw.risk = "destructive"
    /\ gw.tool.risk_tier = "read_only"
    /\ MatchedSignalTiers(gw.tool, gw.args, cwdSystem) = {"execute", "destructive"}

(***************************************************************************)
(* Claims about auto-opening.                                              *)
(***************************************************************************)
PdfPositions(artifacts) == {i \in DOMAIN artifacts : artifacts[i].artifact_type = "PDF"}

CodePositions(artifacts) == {i \in DOMAIN artifacts : artifacts[i].artifact_type = "CODE"}

\* the selection the precedence law asks for
LawSelection(artifacts) ==
    IF Cardinality(PdfPositions(artifacts)) = 1
    THEN <<artifacts[CHOOSE i \in PdfPositions(artifacts) : TRUE]>>
    ELSE IF CodePositions(artifacts) # {}
         THEN <<artifacts[CHOOSE i \in CodePositions(artifacts) :
                              \A j \in CodePositions(artifacts) : i <= j]>>
         ELSE <<>>

AppSelection == [k \in DOMAIN auto.auto_opened |-> auto.auto_opened[k].artifact]

\* C29: on every list of new artifacts the registry's rule and the
\* application's rule each select at most one artifact - the PDF when the
\* list holds exactly one PDF, otherwise the first CODE artifact if there
\* is one, otherwise nothing - and the two select the same artifact.
C29_AutoOpenRulesAgree ==
    /\ auto.registry_asked =>
           /\ Len(auto.to_open) <= 1
           /\ auto.to_open = LawSelection(auto.artifacts)
    /\ auto.app_applied =>
           /\ Len(auto.auto_opened) <= 1
           /\ AppSelection = LawSelection(auto.artifacts)
    /\ (auto.registry_asked /\ auto.app_applied) => auto.to_open = AppSelection

\* both rules were applied to two PDFs followed by a CODE artifact
C29_Witness ==
    /\ auto.registry_asked
    /\ auto.app_applied
    /\ Len(auto.artifacts) = 3
    /\ Cardinality(PdfPositions(auto.artifacts)) = 2
    /\ auto.artifacts[3].artifact_type = "CODE"
    /\ auto.to_open = <<auto.artifacts[3]>>

(***************************************************************************)
(* Claims about the faults of invoke.                                      *)
(***************************************************************************)
\* every invoke that ended handed a result to its caller
EveryInvokeReturned ==
    (inv.pc = "done") => Len(returned) = inv.invocations

\* an invoke without a prompt fails before any reasoning call or tool call
NoPromptNoWork ==
    (inv.pc = "done" /\ inv.main_prompt = "") =>
        /\ ~LastResult.success
        /\ inv.llm_calls = 0
        /\ inv.gateway_calls = 0
        /\ inv.tool_runs = 0
        /\ LastResult.execution_log = <<>>

\* the step in which the reasoning engine raises returns a failed result that
\* holds the artifacts and the log as they were before the step
EngineFaultKeepsCollected ==
    (inv.pc = "reason" /\ inv'.pc = "done" /\ inv'.llm_response = <<"raise">>) =>
        /\ Len(returned') = Len(returned) + 1
        /\ ~returned'[Len(returned')].success
        /\ heap'[returned'[Len(returned')].artifacts] = heap[executor.collected_artifacts]
        /\ heap'[returned'[Len(returned')].artifacts] = produced
        /\ heap'[returned'[Len(returned')].execution_log] = heap[executor.execution_log]
        /\ Len(heap[executor.execution_log]) >= inv.llm_calls + inv.tool_runs

\* C30: invoke never propagates a fault to its caller: without an input
\* prompt it returns a failed result and makes no reasoning call and runs no
\* tool, and when the reasoning engine raises it returns a failed result that
\* still carries the artifacts and the execution log collected so far.
C30_InvokeContainsFaults ==
    /\ [](EveryInvokeReturned /\ NoPromptNoWork)
    /\ [][EngineFaultKeepsCollected]_vars

\* the engine raised after a tool had produced an artifact
C30_Witness ==
    /\ inv.pc = "done"
    /\ inv.llm_response = <<"raise">>
    /\ ~LastResult.success
    /\ LastResult.artifacts # <<>>
    /\ Len(LastResult.execution_log) >= 2

(***************************************************************************)
(* Claims about the bounds of the reasoning loop.                          *)
(***************************************************************************)
LoopWithinCap ==
    /\ inv.llm_calls <= executor.max_iterations
    /\ inv.tool_runs <= executor.max_iterations
    /\ inv.tool_runs <= inv.llm_calls
    /\ executor.current_iteration <= executor.max_iterations
    /\ (inv.pc = "done") => LastResult.iterations <= executor.max_iterations

\* a tool runs only in the tool step of an iteration, once, and the step ends
\* before the next reasoning call or the return
OneToolCallPerIteration ==
    (inv'.tool_runs # inv.tool_runs /\ inv'.invocations = inv.invocations) =>
        /\ inv.pc = "tool"
        /\ inv'.pc # "tool"
        /\ inv'.tool_runs = inv.tool_runs + 1
        /\ inv'.tool_runs <= executor.current_iteration

InvokeEnds ==
    (inv.pc \in {"reason", "tool"}) ~> (inv.pc = "done")

\* C31: every invoke terminates whatever the reasoning engine replies: it
\* makes at most max_iterations reasoning calls and at most max_iterations
\* tool executions, executes at most one tool call per iteration and never
\* two at once, and reports iterations <= max_iterations.
C31_InvokeTerminatesWithinCap ==
    /\ []LoopWithinCap
    /\ [][OneToolCallPerIteration]_vars
    /\ InvokeEnds

\* an invoke ran a tool in every iteration up to the cap and returned
C31_Witness ==
    /\ inv.pc = "done"
    /\ executor.max_iterations = MaxIterations
    /\ inv.llm_calls = executor.max_iterations
    /\ inv.tool_runs = executor.max_iterations
    /\ LastResult.iterations = executor.max_iterations

(***************************************************************************)
(* Claims about the end of the retry loop.                                 *)
(***************************************************************************)
\* the attempts whose agent was run
AgentRunsMade ==
    {i \in 1..Len(attempts) :
        attempts[i].outcome \in {"success", "failed", "rejected", "run raised"}}

LastAttempt == attempts[Len(attempts)]

RetryWithinBound ==
    /\ Cardinality(AgentRunsMade) <= rt.max_retries
    /\ Len(attempts) <= rt.max_retries

\* the result handed back is the agent's success or a failure that is not a
\* rejection; a last rejection comes back summarised
TerminalOutcome ==
    (rt.pc = "done") =>
        /\ \/ /\ rt.result.success
              /\ Len(attempts) > 0
              /\ LastAttempt.outcome = "success"
              /\ rt.result = LastAttempt.result
           \/ /\ ~rt.result.success
              /\ rt.result.error_code # "TASK_REJECTED_AS_INAPPROPRIATE"
        /\ (Len(attempts) > 0 /\ LastAttempt.outcome = "rejected") =>
               /\ ~rt.result.success
               /\ rt.result.error_code = "AGENT_EXECUTION_FAILED"
               /\ rt.result # LastAttempt.result

RetryLoopEnds ==
    (rt.pc \in {"route", "run"}) ~> (rt.pc = "done")

\* C32: for every behaviour of the Dispatcher and the agents on each attempt
\* (success, rejection, other failure, or a raised fault), the retry loop ends
\* after at most max_retries agent runs, with the successful result or with a
\* failed one; a rejection is never handed back as final without being
\* summarised as a failure.
C32_RetryLoopEndsTerminal ==
    /\ [](RetryWithinBound /\ TerminalOutcome)
    /\ RetryLoopEnds

\* a raised fault, then a rejection on the last of two attempts
C32_Witness ==
    /\ rt.pc = "done"
    /\ rt.max_retries = 2
    /\ Len(attempts) = 2
    /\ attempts[1].outcome = "run raised"
    /\ attempts[2].outcome = "rejected"
    /\ rt.result.error_code = "AGENT_EXECUTION_FAILED"

(***************************************************************************)
(* Claims about raised faults in the retry loop.                           *)
(***************************************************************************)
RaisedAttempts ==
    {i \in 1..Len(attempts) : attempts[i].outcome \in {"route raised", "run raised"}}

\* C33: when routing or the agent run raises on a non-final attempt, the next
\* attempt is made with the same prompt and the same exclusion set: the
\* faulting agent is not excluded and no context note is added; when it
\* happens on the final attempt the loop returns a failed result.
C33_FaultRetriesUnchanged ==
    \A i \in RaisedAttempts :
        /\ i < rt.max_retries =>
               /\ i = Len(attempts) =>
                      /\ rt.pc = "route"
                      /\ rt.attempt = i
                      /\ rt.prompt = attempts[i].prompt
                      /\ rt.rejected_agents = attempts[i].rejected_before
               /\ i < Len(attempts) =>
                      /\ attempts[i + 1].prompt = attempts[i].prompt
                      /\ attempts[i + 1].rejected_before = attempts[i].rejected_before
                      /\ attempts[i + 1].routed_against = attempts[i].routed_against
        /\ i = rt.max_retries =>
               /\ i = Len(attempts)
               /\ rt.pc = "done"
               /\ ~rt.result.success
               /\ rt.result.error_code = "AGENT_EXECUTION_FAILED"

\* a rejection, then a raised run, then a third attempt with the prompt and
\* the exclusions of the second
C33_Witness ==
    /\ Len(attempts) = 3
    /\ attempts[1].outcome = "rejected"
    /\ attempts[2].outcome = "run raised"
    /\ attempts[3].prompt = attempts[2].prompt
    /\ attempts[3].prompt # UserPrompt
    /\ attempts[3].rejected_before = <<attempts[1].agent>>

(***************************************************************************)
(* Claims about invoke calls that overlap on one executor.                 *)
(***************************************************************************)
\* the entries of the log a call made itself: one for each reasoning call
\* that answered and one for each tool run
OwnLogLength == inv'.llm_calls + inv'.tool_runs

\* C34: when two task attempts on parallel workers call invoke on the same
\* executor at overlapping times, the result each call returns holds the
\* artifacts its own tool executions produced, a log of its own steps and its
\* own iteration count: nothing of the other call, and nothing of its own
\* lost.
CallReturnsOwnState ==
    (Len(returned') = Len(returned) + 1) =>
        LET result == returned'[Len(returned')]
        IN  /\ heap'[result.artifacts] = produced'
            /\ Len(heap'[result.execution_log]) = OwnLogLength
            /\ result.iterations = inv.iteration + 1

C34_OverlappingCallsIsolated == [][CallReturnsOwnState]_vars

(***************************************************************************)
(* Claims about denials recorded by parallel workers.                      *)
(***************************************************************************)
\* C35: when several task attempts on parallel workers record denials on the
\* shared gateway, the append and the trim being separate steps that
\* interleave, the denial history holds at most 100 records in every state a
\* reader of the history or of the statistics can observe.
C35_SharedHistoryWithinLimit ==
    Len(denied_operations) <= DENIAL_HISTORY_LIMIT

(***************************************************************************)
(* Claims about the tool allow-list.                                       *)
(***************************************************************************)
\* C36: when a task is given an explicit tool allow-list, the executor
\* executes only tools named in it: a call of a registered tool outside the
\* allow-list is not executed.
ToolRunIsAllowed ==
    (inv'.tool_runs > inv.tool_runs /\ inv.available_tools # <<>>) =>
        inv.tool_call.tool_name \in Range(inv.available_tools)

C36_OnlyAllowListedToolsRun == [][ToolRunIsAllowed]_vars

(***************************************************************************)
(* Claims about the agent variants.                                        *)
(***************************************************************************)
\* C37: when an agent's task succeeds, every artifact the executor collected
\* during the task is in the returned Task Result's artifact list, and each
\* of them is registered with the current thread by the application's result
\* processing.
C37_CollectedArtifactsRegistered ==
    (tk.pc = "processed" /\ tk.outcome.success /\ tk.output.success) =>
        /\ tk.output.artifacts = tk.outcome.artifacts
        /\ tk.thread_artifacts = tk.outcome.artifacts

\* C38: for every agent variant, when the executor's invoke reports
\* success == false the agent's Task Result has success == false.
C38_FailedRunNeverReportedAsSuccess ==
    (tk.pc \in {"ran", "processed"} /\ ~tk.outcome.raised /\ ~tk.outcome.success) =>
        ~tk.output.success

(***************************************************************************)
(* Claims about the thread during the retry loop.                          *)
(***************************************************************************)
UserTurns == {i \in 1..Len(thread) : thread[i].role = "user"}

\* C39: one run of the retry loop adds the user's original prompt to the
\* thread's conversation exactly once, however many attempts are made: a
\* retry neither appends the user message again nor stores the prompt
\* extended with the retry context note as a user turn.
C39_UserPromptAddedOnce ==
    /\ Cardinality(UserTurns) <= 1
    /\ \A i \in UserTurns : thread[i].content = UserPrompt
    /\ (rt.pc = "done" /\ Len(attempts) > 0) => Cardinality(UserTurns) = 1

(***************************************************************************)
(* Claims about the ArtifactRegistry.                                      *)
(***************************************************************************)
FoundById(a) ==
    /\ a.artifact_id \in DOMAIN areg.indexes._artifacts
    /\ areg.indexes._artifacts[a.artifact_id] = a

InTypeList(a) == a \in Range(areg.indexes._by_type[a.artifact_type])

PathResolves(a) ==
    /\ a.file_path \in DOMAIN areg.indexes._by_path
    /\ areg.indexes._by_path[a.file_path].artifact_id
           \in DOMAIN areg.indexes._artifacts

\* C40: after any sequence of register, remove_artifact and clear -
\* including artifacts with distinct ids that share a file path, and the
\* refused re-registration of an existing id - an artifact is found by id if
\* and only if it is in its type's list and its file path resolves to a
\* registered artifact, and remove_artifact of a registered id succeeds.
C40_IndexesConsistent ==
    /\ \A a \in StoredArtifacts : FoundById(a) <=> (InTypeList(a) /\ PathResolves(a))
    /\ (areg.last.op = "remove_artifact" /\ areg.last.was_registered) =>
           (areg.last.result /\ areg.last.raised = "none")
    /\ (areg.last.op = "register" /\ areg.last.was_registered) => ~areg.last.result

====
